---- MODULE Spec2Model ----
(***************************************************************************)
(* Snippet extraction of heaths/include-file: the four per-dialect         *)
(* scanners (collect of markdown.rs, asciidoc.rs, org.rs, textile.rs) and   *)
(* the orchestrating extract of lib.rs.                                    *)
(*                                                                         *)
(* A line is a Rust string: a sequence of UTF-8 bytes, each written as a   *)
(* string.  An ASCII character is one byte; the one non-ASCII character of *)
(* the alphabet, U+00E9, is the two bytes E1 E2.  Offsets and lengths are  *)
(* byte offsets, as in the source, and slicing a string at an offset that  *)
(* is not a character boundary panics.                                     *)
(* A document is a sequence of lines, as std::io::BufRead::lines yields    *)
(* them (terminators removed).  One step of a scanner action is one        *)
(* iteration of the line loop of its collect function.                    *)
(***************************************************************************)
EXTENDS Integers, Sequences, FiniteSets, TLC

\* Longest document, in lines.
MaxLines == 4

(***************************************************************************)
(* String helpers: the std::str operations the scanners use.               *)
(***************************************************************************)

\* char::is_whitespace, on the alphabet of the model
IsWhitespace(c) == c \in {" ", "\t"}

\* the index of the first element of s in the set stops, or Len(s) + 1
FirstIn(s, stops) ==
    IF stops = {} THEN Len(s) + 1
    ELSE CHOOSE i \in stops : \A j \in stops : i <= j

\* s.chars().take_while(|&x| x == c).count()
LeadingRun(s, c) == FirstIn(s, {i \in 1..Len(s) : s[i] # c}) - 1

\* &s[n..]
SliceFrom(s, n) == SubSeq(s, n + 1, Len(s))

\* &s[..n]
SliceTo(s, n) == SubSeq(s, 1, n)

\* str::trim_start
TrimStart(s) == SliceFrom(s, FirstIn(s, {i \in 1..Len(s) : ~IsWhitespace(s[i])}) - 1)

\* str::trim_end
TrimEnd(s) ==
    LET keeps == {i \in 1..Len(s) : ~IsWhitespace(s[i])}
    IN  IF keeps = {} THEN <<>>
        ELSE SliceTo(s, CHOOSE i \in keeps : \A j \in keeps : j <= i)

\* str::trim
Trim(s) == TrimEnd(TrimStart(s))

\* str::starts_with
StartsWith(s, p) == Len(s) >= Len(p) /\ SliceTo(s, Len(p)) = p

\* str::find: the byte offset of the first occurrence, or -1 for None
Find(s, p) ==
    LET hits == {i \in 0..(Len(s) - Len(p)) : SubSeq(s, i + 1, i + Len(p)) = p}
    IN  IF hits = {} THEN -1
        ELSE CHOOSE i \in hits : \A j \in hits : i <= j

\* str::contains
Contains(s, p) == Find(s, p) >= 0

\* join of a vector of strings with a newline separator
RECURSIVE Join(_)
Join(ls) ==
    IF Len(ls) = 0 THEN <<>>
    ELSE IF Len(ls) = 1 THEN ls[1]
    ELSE ls[1] \o <<"\n">> \o Join(Tail(ls))

\* The two bytes of U+00E9 (0xC3 0xA9): a leading and a continuation byte.
E1 == "E1"
E2 == "E2"

\* str::is_char_boundary
IsCharBoundary(s, n) ==
    \/ n = 0
    \/ n = Len(s)
    \/ n < Len(s) /\ s[n + 1] # E2

\* u8::to_ascii_lowercase on the letters of the directives
AsciiLower ==
    [c \in {"A", "B", "C", "D", "E", "G", "I", "M", "N", "R", "S"} |->
        CASE c = "A" -> "a" [] c = "B" -> "b" [] c = "C" -> "c" [] c = "D" -> "d"
          [] c = "E" -> "e" [] c = "G" -> "g" [] c = "I" -> "i" [] c = "M" -> "m"
          [] c = "N" -> "n" [] c = "R" -> "r" [] c = "S" -> "s"]

ToAsciiLowercase(c) == IF c \in DOMAIN AsciiLower THEN AsciiLower[c] ELSE c

\* str::eq_ignore_ascii_case
EqIgnoreAsciiCase(a, b) ==
    /\ Len(a) = Len(b)
    /\ \A i \in 1..Len(a) : ToAsciiLowercase(a[i]) = ToAsciiLowercase(b[i])

\* The two fence characters.  The grave accent (U+0060) cannot be written in
\* a string of this language and is written by name.
Backtick == "BQ"
Tilde == "~"

\* n copies of character c
Rep(c, n) == [i \in 1..n |-> c]

(***************************************************************************)
(* The string literals of the source.                                      *)
(***************************************************************************)
SourceRust == <<"[", "s", "o", "u", "r", "c", "e", ",", "r", "u", "s", "t">>
ShortRust == <<"[", ",", "r", "u", "s", "t">>
IdEq == <<"i", "d", "=">>
Quote == "\""
Delimiter == <<"-", "-", "-", "-">>
NameDirective == <<"#", "+", "N", "A", "M", "E", ":">>
BeginSrc == <<"#", "+", "B", "E", "G", "I", "N", "_", "S", "R", "C">>
EndSrc == <<"#", "+", "E", "N", "D", "_", "S", "R", "C">>
Rust == <<"r", "u", "s", "t">>
Bc == <<"b", "c">>
DotDot == <<".", ".">>
BlockTypes ==
    << <<"p">>, <<"b", "q">>, <<"b", "c">>, <<"h", "1">>, <<"h", "2">>,
       <<"h", "3">>, <<"h", "4">>, <<"h", "5">>, <<"h", "6">>,
       <<"t", "a", "b", "l", "e">>, <<"p", "r", "e">>,
       <<"n", "o", "t", "e", "x", "t", "i", "l", "e">> >>

(***************************************************************************)
(* Inputs: the lines documents are made of, per dialect.                   *)
(***************************************************************************)

\* the requested names
Names == {<<"x">>}

\* Markdown lines: fences of both characters, of runs 2, 3 and 4, with and
\* without a tag, indented and not, and content lines.
MarkdownLines ==
    { Rep(Backtick, 3) \o <<"x">>,
      Rep(Backtick, 4) \o <<"x">>,
      Rep(Tilde, 3) \o <<"x">>,
      Rep(Backtick, 2) \o <<"x">>,
      Rep(Backtick, 3) \o <<"y">>,
      <<" ">> \o Rep(Backtick, 4) \o <<"x">>,
      Rep(Backtick, 3),
      Rep(Backtick, 4),
      Rep(Tilde, 3),
      <<" ">> \o Rep(Backtick, 4),
      <<"a">>,
      <<" ", "a">>,
      <<E1, E2>>,
      <<>> }

\* an id attribute with value v
IdAttr(v) == <<",">> \o IdEq \o <<Quote>> \o v \o <<Quote>>

\* AsciiDoc lines: attribute lines with and without the id, delimiters,
\* content lines.
AsciidocLines ==
    { SourceRust \o IdAttr(<<"x">>) \o <<"]">>,
      ShortRust \o IdAttr(<<"x">>) \o <<"]">>,
      SourceRust \o IdAttr(<<"y">>) \o <<"]">>,
      SourceRust \o IdAttr(<<"x", "y">>) \o <<"]">>,
      SourceRust \o <<"]">>,
      <<"[", "s", "o", "u", "r", "c", "e", ",", "r", "u", "b", "y">>
          \o IdAttr(<<"x">>) \o <<"]">>,
      SourceRust \o <<",", "x">> \o IdEq \o <<Quote, "x", Quote, "]">>,
      Delimiter,
      <<" ">> \o Delimiter,
      <<"a">> \o Delimiter,
      <<"a">>,
      <<" ", "a">>,
      <<>> }

\* Org lines: name and begin/end directives in upper and lower case, content lines.
OrgLines ==
    { NameDirective \o <<" ", "x">>,
      <<"#", "+", "n", "a", "m", "e", ":", " ", "x">>,
      NameDirective \o <<" ", "y">>,
      BeginSrc \o <<" ">> \o Rust,
      <<"#", "+", "b", "e", "g", "i", "n", "_", "s", "r", "c", " ">> \o Rust,
      BeginSrc \o <<" ", "r", "u", "b", "y">>,
      EndSrc,
      <<"#", "+", "e", "n", "d", "_", "s", "r", "c">>,
      <<"a">>,
      <<" ", "a">>,
      <<E1, E2, E1, E2, E1, E2, E1, E2, E1, E2>>,
      <<>> }

\* Textile lines: the three attribute orderings with one and two periods,
\* other structural blocks, content lines.
TextileLines ==
    { <<"b", "c", "(", "r", "u", "s", "t", "#", "x", ")", ".", " ", "a">>,
      <<"b", "c", "(", "r", "u", "s", "t", "#", "x", ")", ".", ".", " ", "a">>,
      <<"b", "c", "[", "r", "u", "s", "t", "]", "(", "#", "x", ")", ".", " ", "a">>,
      <<"b", "c", "(", "#", "x", ")", "[", "r", "u", "s", "t", "]", ".", ".", " ", "a">>,
      <<"b", "c", "(", "r", "u", "s", "t", "#", "y", ")", ".", " ", "a">>,
      <<"b", "c", "(", "r", "u", "s", "t", "#", "x", ")", ".">>,
      <<"b", "c", "(", "r", "u", "s", "t", "#", "x", ")", ".", " ", "a", ".", ".", "b">>,
      <<"p", ".", " ", "a">>,
      <<"a">>,
      <<" ", "a">>,
      <<>> }

DocumentsOver(vocab) == UNION {[1..n -> vocab] : n \in 0..MaxLines}

(***************************************************************************)
(* State                                                                   *)
(***************************************************************************)
VARIABLES
    version,        \* build.rs: the version word rustc --version printed
    span_locations, \* the cfg of the build: "unbuilt", "enabled" or "disabled"
    item,           \* the tokens given to the macro, Parsed once parse2 took them
    relative,       \* include_file was given the relative parameter
    file,           \* the stream of include_file: "closed", "open" or "failed"
    scope,          \* include_file was given the scope parameter
    scanner,        \* which collect function extract was given
    name,           \* the requested name
    doc,            \* the document: the lines the reader yields
    pos,            \* index of the next line the iterator yields
    stopped,        \* the loop was left through break
    lines,          \* the lines vector of collect
    in_fence, fence_char, fence_count, fence_indent,   \* markdown.rs
    in_block,                                          \* asciidoc.rs, org.rs, textile.rs
    delimiter_checked, use_delimiters,                 \* asciidoc.rs
    found_name,                                        \* org.rs
    is_double_period,                                  \* textile.rs
    result,         \* what extract returned; kind "none" while it runs
    previous        \* what extract returned to the call before this one

\* what the build and the parse of the arguments decide
invocation == <<version, span_locations, item, relative>>

vars == <<invocation, file, scope, scanner, name, doc, pos, stopped, lines, in_fence, fence_char,
          fence_count, fence_indent, in_block, delimiter_checked,
          use_delimiters, found_name, is_double_period, result, previous>>

\* the NUL character fence_char starts with
Nul == "NUL"

NoResult == [kind |-> "none", text |-> <<>>]

\* the locals of a collect function as it enters its loop
CollectLocals ==
    /\ pos = 1
    /\ stopped = FALSE
    /\ lines = <<>>
    /\ in_fence = FALSE
    /\ fence_char = Nul
    /\ fence_count = 0
    /\ fence_indent = 0
    /\ in_block = FALSE
    /\ delimiter_checked = FALSE
    /\ use_delimiters = FALSE
    /\ found_name = FALSE
    /\ is_double_period = FALSE
    /\ result = NoResult

\* the item of a macro whose arguments were parsed
Parsed == <<"parsed">>

\* the crate was built with rustc 1.88.0 and the arguments, a path and a
\* name, were parsed
Invoked ==
    /\ version = <<"1", ".", "8", "8", ".", "0">>
    /\ span_locations = "enabled"
    /\ item = Parsed
    /\ relative = FALSE

\* the stream is open, no scope parameter was given and collect enters its loop
InitLocals ==
    Invoked /\ file = "open" /\ scope = FALSE /\ CollectLocals /\ previous = NoResult

InitMarkdown ==
    /\ scanner = "markdown"
    /\ name \in Names
    /\ doc \in DocumentsOver(MarkdownLines)
    /\ InitLocals

InitAsciidoc ==
    /\ scanner = "asciidoc"
    /\ name \in Names
    /\ doc \in DocumentsOver(AsciidocLines)
    /\ InitLocals

InitOrg ==
    /\ scanner = "org"
    /\ name \in Names
    /\ doc \in DocumentsOver(OrgLines)
    /\ InitLocals

InitTextile ==
    /\ scanner = "textile"
    /\ name \in Names
    /\ doc \in DocumentsOver(TextileLines)
    /\ InitLocals

Init == InitMarkdown \/ InitAsciidoc \/ InitOrg \/ InitTextile

\* the loop goes on after a block that ended with no line collected
RunningAfterEmptyBlock ==
    file = "open" /\ result.kind = "none" /\ pos <= Len(doc) /\ ~(stopped /\ Len(lines) > 0)

\* the loop of collect has a next line to read
Running == file = "open" /\ result.kind = "none" /\ ~stopped /\ pos <= Len(doc)

\* the iterator yields the line it stands at again
AdvanceNever(p) == p

\* for line in iter: the iterator moves past the line it yielded
Advance(p) == p + 1

\* a slice at a byte offset inside a character: the thread panics
Panicked == [kind |-> "Panic", text |-> <<>>]

(***************************************************************************)
(* markdown.rs collect: one iteration of the loop                          *)
(***************************************************************************)
MarkdownClosesFence(line) ==
    LET trimmed_start == TrimStart(line)
        indent == Len(line) - Len(trimmed_start)
    IN  /\ indent = fence_indent
        /\ Len(trimmed_start) > 0
        /\ trimmed_start[1] = fence_char
        /\ LeadingRun(trimmed_start, fence_char) >= fence_count

MarkdownStrip(line) ==
    IF Len(line) >= fence_indent THEN SliceFrom(line, fence_indent) ELSE line

\* the opening test with a run of 2 accepted
MarkdownOpensRunOfTwo(line) ==
    LET trimmed_start == TrimStart(line)
        first_char == IF Len(trimmed_start) > 0 THEN trimmed_start[1] ELSE Nul
        count == LeadingRun(trimmed_start, first_char)
    IN  /\ first_char \in {Backtick, Tilde}
        /\ count >= 2
        /\ Contains(SliceFrom(trimmed_start, count), name)

MarkdownOpens(line) ==
    LET trimmed_start == TrimStart(line)
        first_char == IF Len(trimmed_start) > 0 THEN trimmed_start[1] ELSE Nul
        count == LeadingRun(trimmed_start, first_char)
    IN  /\ first_char \in {Backtick, Tilde}
        /\ count >= 3
        /\ Contains(SliceFrom(trimmed_start, count), name)

\* &line[fence_indent..] is reached with fence_indent inside a character
MarkdownStripPanics(line) ==
    Len(line) >= fence_indent /\ ~IsCharBoundary(line, fence_indent)

\* an opening read inside the fence starts the collection again
MarkdownStepReopening ==
    /\ scanner = "markdown"
    /\ Running
    /\ LET line == doc[pos]
           trimmed_start == TrimStart(line)
           indent == Len(line) - Len(trimmed_start)
       IN  IF MarkdownOpens(line)
           THEN /\ in_fence' = TRUE
                /\ fence_char' = trimmed_start[1]
                /\ fence_count' = LeadingRun(trimmed_start, trimmed_start[1])
                /\ fence_indent' = indent
                /\ lines' = <<>>
                /\ UNCHANGED <<stopped, result>>
           ELSE IF ~in_fence
           THEN UNCHANGED <<in_fence, fence_char, fence_count, fence_indent,
                            lines, stopped, result>>
           ELSE /\ IF MarkdownClosesFence(line)
                   THEN stopped' = TRUE /\ UNCHANGED <<lines, result>>
                   ELSE IF MarkdownStripPanics(line)
                   THEN result' = Panicked /\ UNCHANGED <<lines, stopped>>
                   ELSE /\ lines' = Append(lines, MarkdownStrip(line))
                        /\ UNCHANGED <<stopped, result>>
                /\ UNCHANGED <<in_fence, fence_char, fence_count, fence_indent>>
    /\ pos' = Advance(pos)
    /\ UNCHANGED <<previous, invocation, file, scope, scanner, name, doc, in_block, delimiter_checked,
                   use_delimiters, found_name, is_double_period>>

MarkdownStep ==
    /\ scanner = "markdown"
    /\ Running
    /\ LET line == doc[pos]
           trimmed_start == TrimStart(line)
           indent == Len(line) - Len(trimmed_start)
       IN  IF ~in_fence
           THEN /\ IF MarkdownOpens(line)
                   THEN /\ in_fence' = TRUE
                        /\ fence_char' = trimmed_start[1]
                        /\ fence_count' = LeadingRun(trimmed_start, trimmed_start[1])
                        /\ fence_indent' = indent
                   ELSE UNCHANGED <<in_fence, fence_char, fence_count, fence_indent>>
                /\ UNCHANGED <<lines, stopped, result>>
           ELSE /\ IF MarkdownClosesFence(line)
                   THEN stopped' = TRUE /\ UNCHANGED <<lines, result>>
                   ELSE IF MarkdownStripPanics(line)
                   THEN result' = Panicked /\ UNCHANGED <<lines, stopped>>
                   ELSE /\ lines' = Append(lines, MarkdownStrip(line))
                        /\ UNCHANGED <<stopped, result>>
                /\ UNCHANGED <<in_fence, fence_char, fence_count, fence_indent>>
    /\ pos' = Advance(pos)
    /\ UNCHANGED <<previous, invocation, file, scope, scanner, name, doc, in_block, delimiter_checked,
                   use_delimiters, found_name, is_double_period>>

(***************************************************************************)
(* asciidoc.rs collect: one iteration of the loop                          *)
(***************************************************************************)
AsciidocHasMatchingId(line) ==
    LET id_pos == Find(line, IdEq)
        after_id == SliceFrom(line, id_pos + 3)
        after_quote == SliceFrom(after_id, 1)
        end_quote == Find(after_quote, <<Quote>>)
    IN  /\ id_pos >= 0
        /\ StartsWith(after_id, <<Quote>>)
        /\ end_quote >= 0
        /\ SliceTo(after_quote, end_quote) = name

AsciidocOpens(line) ==
    LET trimmed == Trim(line)
    IN  /\ StartsWith(trimmed, SourceRust) \/ StartsWith(trimmed, ShortRust)
        /\ AsciidocHasMatchingId(trimmed)

\* a line that holds the delimiter taken for the delimiter
AsciidocHoldsDelimiter(line) == Contains(Trim(line), Delimiter)

\* line.trim() == "----"
AsciidocIsDelimiter(line) == Trim(line) = Delimiter

\* only a blank line taken to end a block that has no delimiters
AsciidocEndsAtBlankOnly(line) == Len(Trim(line)) = 0

\* the line ends a block that has no delimiters
AsciidocEndsUndelimited(line) ==
    Len(Trim(line)) = 0 \/ Trim(line) = Delimiter

AsciidocStep ==
    /\ scanner = "asciidoc"
    /\ Running
    /\ LET line == doc[pos]
       IN  IF ~in_block
           THEN /\ in_block' = AsciidocOpens(line)
                /\ UNCHANGED <<delimiter_checked, use_delimiters, lines, stopped>>
           ELSE IF ~delimiter_checked
           THEN /\ delimiter_checked' = TRUE
                /\ IF AsciidocIsDelimiter(line)
                   THEN use_delimiters' = TRUE /\ UNCHANGED <<lines, stopped>>
                   ELSE IF AsciidocEndsUndelimited(line)
                   THEN stopped' = TRUE /\ UNCHANGED <<lines, use_delimiters>>
                   ELSE /\ lines' = Append(lines, line)
                        /\ UNCHANGED <<stopped, use_delimiters>>
                /\ UNCHANGED in_block
           ELSE /\ IF (IF use_delimiters THEN AsciidocIsDelimiter(line)
                                         ELSE AsciidocEndsUndelimited(line))
                   THEN stopped' = TRUE /\ UNCHANGED lines
                   ELSE lines' = Append(lines, line) /\ UNCHANGED stopped
                /\ UNCHANGED <<in_block, delimiter_checked, use_delimiters>>
    /\ pos' = Advance(pos)
    /\ UNCHANGED <<previous, invocation, file, scope, scanner, name, doc, in_fence, fence_char, fence_count,
                   fence_indent, found_name, is_double_period, result>>

(***************************************************************************)
(* org.rs collect: one iteration of the loop                               *)
(***************************************************************************)
\* trimmed.len() >= n && trimmed[..n].eq_ignore_ascii_case(directive)
\* the directive compared letter for letter
HasDirectiveInUpperCase(trimmed, directive) ==
    /\ Len(trimmed) >= Len(directive)
    /\ SliceTo(trimmed, Len(directive)) = directive

HasDirective(trimmed, directive) ==
    /\ Len(trimmed) >= Len(directive)
    /\ EqIgnoreAsciiCase(SliceTo(trimmed, Len(directive)), directive)

\* the slice trimmed[..n] of that test is taken inside a character
DirectivePanics(trimmed, directive) ==
    /\ Len(trimmed) >= Len(directive)
    /\ ~IsCharBoundary(trimmed, Len(directive))

\* the name compared by containment
OrgHasMatchingNameBySubstring(line) ==
    LET trimmed == Trim(line)
    IN  /\ HasDirective(trimmed, NameDirective)
        /\ Contains(TrimStart(SliceFrom(trimmed, 7)), name)

OrgHasMatchingName(line) ==
    LET trimmed == Trim(line)
    IN  /\ HasDirective(trimmed, NameDirective)
        /\ TrimStart(SliceFrom(trimmed, 7)) = name

IsRustBlock(line) ==
    LET trimmed == Trim(line)
        rest == TrimStart(SliceFrom(trimmed, 11))
    IN  /\ HasDirective(trimmed, BeginSrc)
        /\ rest = Rust \/ StartsWith(rest, Rust \o <<" ">>)

\* found_name is left set when the begin directive opens the block
OrgStepKeepingName ==
    /\ scanner = "org"
    /\ Running
    /\ LET line == doc[pos]
           trimmed == Trim(line)
       IN  IF ~in_block
           THEN IF DirectivePanics(trimmed, NameDirective)
                THEN /\ result' = Panicked
                     /\ UNCHANGED <<found_name, in_block, lines, stopped>>
                ELSE IF HasDirective(trimmed, NameDirective) /\ OrgHasMatchingName(trimmed)
                THEN /\ found_name' = TRUE
                     /\ UNCHANGED <<in_block, lines, stopped, result>>
                ELSE IF found_name /\ DirectivePanics(trimmed, BeginSrc)
                THEN /\ result' = Panicked
                     /\ UNCHANGED <<found_name, in_block, lines, stopped>>
                ELSE /\ in_block' = (found_name /\ HasDirective(trimmed, BeginSrc)
                                                /\ IsRustBlock(trimmed))
                     /\ found_name' = (found_name /\ in_block')
                     /\ UNCHANGED <<lines, stopped, result>>
           ELSE IF DirectivePanics(trimmed, EndSrc)
                THEN /\ result' = Panicked
                     /\ UNCHANGED <<found_name, in_block, lines, stopped>>
                ELSE /\ IF HasDirective(trimmed, EndSrc)
                        THEN stopped' = TRUE /\ UNCHANGED lines
                        ELSE lines' = Append(lines, line) /\ UNCHANGED stopped
                     /\ UNCHANGED <<found_name, in_block, result>>
    /\ pos' = Advance(pos)
    /\ UNCHANGED <<previous, invocation, file, scope, scanner, name, doc, in_fence, fence_char, fence_count,
                   fence_indent, delimiter_checked, use_delimiters, is_double_period>>

OrgStep ==
    /\ scanner = "org"
    /\ Running
    /\ LET line == doc[pos]
           trimmed == Trim(line)
       IN  IF ~in_block
           THEN IF DirectivePanics(trimmed, NameDirective)
                THEN /\ result' = Panicked
                     /\ UNCHANGED <<found_name, in_block, lines, stopped>>
                ELSE IF HasDirective(trimmed, NameDirective) /\ OrgHasMatchingName(trimmed)
                THEN /\ found_name' = TRUE
                     /\ UNCHANGED <<in_block, lines, stopped, result>>
                ELSE IF found_name /\ DirectivePanics(trimmed, BeginSrc)
                THEN /\ result' = Panicked
                     /\ UNCHANGED <<found_name, in_block, lines, stopped>>
                ELSE /\ in_block' = (found_name /\ HasDirective(trimmed, BeginSrc)
                                                /\ IsRustBlock(trimmed))
                     /\ found_name' = FALSE
                     /\ UNCHANGED <<lines, stopped, result>>
           ELSE IF DirectivePanics(trimmed, EndSrc)
                THEN /\ result' = Panicked
                     /\ UNCHANGED <<found_name, in_block, lines, stopped>>
                ELSE /\ IF HasDirective(trimmed, EndSrc)
                        THEN stopped' = TRUE /\ UNCHANGED lines
                        ELSE lines' = Append(lines, line) /\ UNCHANGED stopped
                     /\ UNCHANGED <<found_name, in_block, result>>
    /\ pos' = Advance(pos)
    /\ UNCHANGED <<previous, invocation, file, scope, scanner, name, doc, in_fence, fence_char, fence_count,
                   fence_indent, delimiter_checked, use_delimiters, is_double_period>>

(***************************************************************************)
(* textile.rs collect: one iteration of the loop                           *)
(***************************************************************************)
\* the pattern occurs in the line and its first occurrence is followed by a period
FollowedByPeriod(line, pattern) ==
    LET p == Find(line, pattern)
    IN  p >= 0 /\ StartsWith(SliceFrom(line, p + Len(pattern)), <<".">>)

TextileHasMatchingId(line) ==
    \/ FollowedByPeriod(line, <<"b", "c", "(", "r", "u", "s", "t", "#">> \o name \o <<")">>)
    \/ FollowedByPeriod(line, <<"b", "c", "[", "r", "u", "s", "t", "]", "(", "#">>
                                  \o name \o <<")">>)
    \/ FollowedByPeriod(line, <<"b", "c", "(", "#">> \o name
                                  \o <<")", "[", "r", "u", "s", "t", "]">>)

\* is_block_tag, the inner loop of the parenthesis arm: the index of the
\* character the outer loop reads next
RECURSIVE SkipParens(_, _, _)
SkipParens(s, i, depth) ==
    IF i > Len(s) \/ s[i] = "." THEN i
    ELSE IF s[i] = ")"
         THEN IF depth = 1 THEN i + 1 ELSE SkipParens(s, i + 1, depth - 1)
    ELSE IF s[i] = "(" THEN SkipParens(s, i + 1, depth + 1)
    ELSE SkipParens(s, i + 1, depth)

\* is_block_tag, the loop of the bracket arm
RECURSIVE SkipBracket(_, _)
SkipBracket(s, i) ==
    IF i > Len(s) THEN i
    ELSE IF s[i] = "]" THEN i + 1
    ELSE SkipBracket(s, i + 1)

\* is_block_tag, the loop over the characters after the block type:
\* the value of found_period
RECURSIVE FoundPeriod(_, _)
FoundPeriod(s, i) ==
    IF i > Len(s) THEN FALSE
    ELSE IF s[i] = "." THEN TRUE
    ELSE IF s[i] \in {"<", ">", "=", ")"} THEN FoundPeriod(s, i + 1)
    ELSE IF s[i] = "(" THEN FoundPeriod(s, SkipParens(s, i + 1, 1))
    ELSE IF s[i] = "[" THEN FoundPeriod(s, SkipBracket(s, i + 1))
    ELSE FALSE

IsBlockTag(line) ==
    /\ Len(line) > 0
    /\ \E k \in 1..Len(BlockTypes) :
          /\ StartsWith(line, BlockTypes[k])
          /\ FoundPeriod(SliceFrom(line, Len(BlockTypes[k])), 1)

RECURSIVE PopBlankLines(_)
\* an if in place of the while: lines without its last line when that is blank
PopOneBlankLine(ls) ==
    IF Len(ls) > 0 /\ Len(Trim(ls[Len(ls)])) = 0
    THEN SliceTo(ls, Len(ls) - 1)
    ELSE ls

\* the pop loop: lines without its trailing blank lines
PopBlankLines(ls) ==
    IF Len(ls) > 0 /\ Len(Trim(ls[Len(ls)])) = 0
    THEN PopBlankLines(SliceTo(ls, Len(ls) - 1))
    ELSE ls

\* every collected line is dropped before a structural-block line
TextileStepDroppingLines ==
    /\ scanner = "textile"
    /\ Running
    /\ LET line == doc[pos]
           trimmed == Trim(line)
           space_pos == Find(trimmed, <<" ">>)
           content == SliceFrom(trimmed, space_pos + 1)
       IN  IF ~in_block
           THEN IF StartsWith(trimmed, Bc) /\ TextileHasMatchingId(trimmed)
                THEN /\ is_double_period' = Contains(trimmed, DotDot)
                     /\ IF space_pos >= 0 /\ Len(content) > 0
                        THEN lines' = Append(lines, content) /\ in_block' = TRUE
                        ELSE UNCHANGED <<lines, in_block>>
                     /\ UNCHANGED stopped
                ELSE UNCHANGED <<is_double_period, lines, in_block, stopped>>
           ELSE /\ IF is_double_period
                   THEN IF IsBlockTag(trimmed)
                        THEN lines' = <<>> /\ stopped' = TRUE
                        ELSE lines' = Append(lines, line) /\ UNCHANGED stopped
                   ELSE IF Len(trimmed) = 0
                        THEN stopped' = TRUE /\ UNCHANGED lines
                        ELSE lines' = Append(lines, line) /\ UNCHANGED stopped
                /\ UNCHANGED <<is_double_period, in_block>>
    /\ pos' = Advance(pos)
    /\ UNCHANGED <<previous, invocation, file, scope, scanner, name, doc, in_fence, fence_char, fence_count,
                   fence_indent, delimiter_checked, use_delimiters, found_name,
                   result>>

TextileStep ==
    /\ scanner = "textile"
    /\ Running
    /\ LET line == doc[pos]
           trimmed == Trim(line)
           space_pos == Find(trimmed, <<" ">>)
           content == SliceFrom(trimmed, space_pos + 1)
       IN  IF ~in_block
           THEN IF StartsWith(trimmed, Bc) /\ TextileHasMatchingId(trimmed)
                THEN /\ is_double_period' = Contains(trimmed, DotDot)
                     /\ IF space_pos >= 0 /\ Len(content) > 0
                        THEN lines' = Append(lines, content) /\ in_block' = TRUE
                        ELSE UNCHANGED <<lines, in_block>>
                     /\ UNCHANGED stopped
                ELSE UNCHANGED <<is_double_period, lines, in_block, stopped>>
           ELSE /\ IF is_double_period
                   THEN IF IsBlockTag(trimmed)
                        THEN lines' = PopBlankLines(lines) /\ stopped' = TRUE
                        ELSE lines' = Append(lines, line) /\ UNCHANGED stopped
                   ELSE IF Len(trimmed) = 0
                        THEN stopped' = TRUE /\ UNCHANGED lines
                        ELSE lines' = Append(lines, line) /\ UNCHANGED stopped
                /\ UNCHANGED <<is_double_period, in_block>>
    /\ pos' = Advance(pos)
    /\ UNCHANGED <<previous, invocation, file, scope, scanner, name, doc, in_fence, fence_char, fence_count,
                   fence_indent, delimiter_checked, use_delimiters, found_name,
                   result>>

(***************************************************************************)
(* lib.rs extract: what follows the call of the collect function           *)
(***************************************************************************)
\* a block left open at end-of-input reported as not found
ExtractResultClosedOnly(ls) ==
    IF Len(ls) = 0 \/ ~stopped
    THEN [kind |-> "NotFound", text |-> <<>>]
    ELSE [kind |-> "Ok", text |-> Join(ls)]

ExtractResult(ls) ==
    IF Len(ls) = 0
    THEN [kind |-> "NotFound", text |-> <<>>]
    ELSE [kind |-> "Ok", text |-> Join(ls)]

\* not-found is reported when the joined text is empty
FinishOnText ==
    /\ file = "open"
    /\ result.kind = "none"
    /\ stopped \/ pos > Len(doc)
    /\ result' = IF Len(Join(lines)) = 0
                 THEN [kind |-> "NotFound", text |-> <<>>]
                 ELSE [kind |-> "Ok", text |-> Join(lines)]
    /\ UNCHANGED <<previous, invocation, file, scope, scanner, name, doc, pos, stopped, lines, in_fence, fence_char,
                   fence_count, fence_indent, in_block, delimiter_checked,
                   use_delimiters, found_name, is_double_period>>

Finish ==
    /\ file = "open"
    /\ result.kind = "none"
    /\ stopped \/ pos > Len(doc)
    /\ result' = ExtractResult(lines)
    /\ UNCHANGED <<previous, invocation, file, scope, scanner, name, doc, pos, stopped, lines, in_fence, fence_char,
                   fence_count, fence_indent, in_block, delimiter_checked,
                   use_delimiters, found_name, is_double_period>>

Next == MarkdownStep \/ AsciidocStep \/ OrgStep \/ TextileStep \/ Finish

\* extract with any of the four collect functions
Spec == Init /\ [][Next]_vars

NextAsciidoc == AsciidocStep \/ Finish

\* extract with the collect of asciidoc.rs
SpecAsciidoc == InitAsciidoc /\ [][NextAsciidoc]_vars

(***************************************************************************)
(* org.rs collect and lib.rs extract as a function of the document: the    *)
(* loop of collect folded over the lines.                                  *)
(***************************************************************************)
\* the locals of collect before the first line
OrgLocals == [in_block |-> FALSE, found_name |-> FALSE, lines |-> <<>>, exit |-> "none"]

\* one iteration of the loop on the locals st; exit is "break" or "panic"
\* when the loop is left
OrgLine(st, line) ==
    LET trimmed == Trim(line)
    IN  IF ~st.in_block
        THEN IF DirectivePanics(trimmed, NameDirective)
             THEN [st EXCEPT !.exit = "panic"]
             ELSE IF HasDirective(trimmed, NameDirective) /\ OrgHasMatchingName(trimmed)
             THEN [st EXCEPT !.found_name = TRUE]
             ELSE IF st.found_name /\ DirectivePanics(trimmed, BeginSrc)
             THEN [st EXCEPT !.exit = "panic"]
             ELSE [st EXCEPT !.in_block = (st.found_name /\ HasDirective(trimmed, BeginSrc)
                                                        /\ IsRustBlock(trimmed)),
                             !.found_name = FALSE]
        ELSE IF DirectivePanics(trimmed, EndSrc)
             THEN [st EXCEPT !.exit = "panic"]
             ELSE IF HasDirective(trimmed, EndSrc)
             THEN [st EXCEPT !.exit = "break"]
             ELSE [st EXCEPT !.lines = Append(st.lines, line)]

RECURSIVE OrgCollect(_, _, _)
OrgCollect(d, i, st) ==
    IF i > Len(d) \/ st.exit # "none" THEN st
    ELSE OrgCollect(d, i + 1, OrgLine(st, d[i]))

\* what extract returns for document d with the collect of org.rs
OrgExtract(d) ==
    LET st == OrgCollect(d, 1, OrgLocals)
    IN  IF st.exit = "panic" THEN Panicked ELSE ExtractResult(st.lines)

NextTextile == TextileStep \/ Finish

NextOrg == OrgStep \/ Finish

\* extract with the collect of org.rs
SpecOrg == InitOrg /\ [][NextOrg]_vars

NextMarkdown == MarkdownStep \/ Finish

\* extract with the collect of markdown.rs
SpecMarkdown == InitMarkdown /\ [][NextMarkdown]_vars

(***************************************************************************)
(* The blocks of a document as the specification describes them (sections  *)
(* 3 and 4), stated on the document alone: which lines announce a block    *)
(* of the requested name, where its content starts and where it ends.      *)
(***************************************************************************)

\* extract has returned (or its thread has panicked)
Done == result.kind # "none"

\* the least element of the set of numbers S, or default when S is empty
Least(S, default) ==
    IF S = {} THEN default ELSE CHOOSE i \in S : \A j \in S : i <= j

\* the number of whitespace characters the line starts with
Indentation(line) == Least({i \in 1..Len(line) : ~IsWhitespace(line[i])}, Len(line) + 1) - 1

\* line is ind whitespace characters, then exactly k characters c, then a tag
FenceLine(line, ind, c, k) ==
    /\ ind + k <= Len(line)
    /\ \A j \in 1..ind : IsWhitespace(line[j])
    /\ \A j \in (ind + 1)..(ind + k) : line[j] = c
    /\ ind + k < Len(line) => line[ind + k + 1] # c

\* Fenced: an opening run of at least 3 fence characters whose tag holds nm
FenceOpening(line, nm) ==
    \E ind \in 0..Len(line), k \in 3..Len(line), c \in {Backtick, Tilde} :
        /\ FenceLine(line, ind, c, k)
        /\ Contains(SubSeq(line, ind + k + 1, Len(line)), nm)

\* Fenced: the line closes a block opened by n characters c at indentation ind
ClosingFence(line, c, n, ind) ==
    /\ Indentation(line) = ind
    /\ Len(line) >= ind + n
    /\ \A j \in (ind + 1)..(ind + n) : line[j] = c

\* Fenced: the line with the opening indentation removed if it carries it
Unindent(line, ind) ==
    IF Len(line) >= ind /\ \A j \in 1..ind : IsWhitespace(line[j])
    THEN SubSeq(line, ind + 1, Len(line))
    ELSE line

\* Attributed: an attribute line for rust that carries the attribute id="nm"
AttributeLine(line, nm) ==
    /\ StartsWith(Trim(line), SourceRust) \/ StartsWith(Trim(line), ShortRust)
    /\ Contains(line, <<",">> \o IdEq \o <<Quote>> \o nm \o <<Quote>>)

\* NamedBlock: the directive lines, in any letter case
DirectiveLine(line, directive) ==
    LET t == Trim(line)
    IN  Len(t) >= Len(directive)
        /\ \A j \in 1..Len(directive) :
              ToAsciiLowercase(t[j]) = ToAsciiLowercase(directive[j])

DirectiveArgument(line, directive) ==
    TrimStart(SubSeq(Trim(line), Len(directive) + 1, Len(Trim(line))))

NameLine(line, nm) ==
    DirectiveLine(line, NameDirective) /\ DirectiveArgument(line, NameDirective) = nm

\* NamedBlock: a begin directive whose whitespace-separated argument is rust,
\* alone or followed by whitespace and further arguments
BeginLine(line) ==
    /\ DirectiveLine(line, BeginSrc)
    /\ Len(Trim(line)) > Len(BeginSrc)
    /\ IsWhitespace(Trim(line)[Len(BeginSrc) + 1])
    /\ LET arg == DirectiveArgument(line, BeginSrc)
       IN  arg = Rust \/ (StartsWith(arg, Rust) /\ IsWhitespace(arg[Len(Rust) + 1]))

\* InlineAttributed: the three attribute orderings for rust and nm
AttributeGroups(nm) ==
    { <<"b", "c", "(", "r", "u", "s", "t", "#">> \o nm \o <<")">>,
      <<"b", "c", "[", "r", "u", "s", "t", "]", "(", "#">> \o nm \o <<")">>,
      <<"b", "c", "(", "#">> \o nm \o <<")", "[", "r", "u", "s", "t", "]">> }

\* InlineAttributed: what follows the attribute group and its periods on an
\* opening line, or <<>> when the line is no opening line
AfterPeriods(line, nm) ==
    LET t == Trim(line)
        groups == {g \in AttributeGroups(nm) : StartsWith(t, g \o <<".">>)}
    IN  IF groups = {} THEN <<>>
        ELSE LET g == CHOOSE g \in groups : TRUE
             IN  IF StartsWith(t, g \o DotDot)
                 THEN SubSeq(t, Len(g) + 3, Len(t))
                 ELSE SubSeq(t, Len(g) + 2, Len(t))

\* InlineAttributed: the opening line ends its attribute group with two periods
DoublePeriod(line, nm) ==
    \E g \in AttributeGroups(nm) : StartsWith(Trim(line), g \o DotDot)

\* InlineAttributed: the inline content of an opening line
InlineContent(line, nm) ==
    LET rest == AfterPeriods(line, nm)
    IN  SubSeq(rest, Least({j \in 1..Len(rest) : rest[j] = " "}, Len(rest)) + 1, Len(rest))

\* line i of document d announces a block of name nm
MatchingBlockAt(sc, d, nm, i) ==
    CASE sc = "markdown" -> FenceOpening(d[i], nm)
      [] sc = "asciidoc" -> AttributeLine(d[i], nm)
      [] sc = "org"      -> i < Len(d) /\ NameLine(d[i], nm) /\ BeginLine(d[i + 1])
      [] sc = "textile"  -> Len(InlineContent(d[i], nm)) > 0

MatchingBlocks(sc, d, nm) == {i \in 1..Len(d) : MatchingBlockAt(sc, d, nm, i)}

\* the line that announces the first block of the name, or 0
FirstBlock(sc, d, nm) == Least(MatchingBlocks(sc, d, nm), 0)


\* the first line of d from index from on that satisfies the test given as
\* the set of indices it holds at, or Len(d) + 1 at end-of-input
Terminator(d, from, ends) == Least({j \in ends : j >= from}, Len(d) + 1)

\* seq without its trailing blank lines
RECURSIVE WithoutTrailingBlanks(_)
WithoutTrailingBlanks(ls) ==
    IF Len(ls) = 0 \/ Len(Trim(ls[Len(ls)])) > 0 THEN ls
    ELSE WithoutTrailingBlanks(SubSeq(ls, 1, Len(ls) - 1))

\* Fenced: the content lines of the block announced by line i
FencedContent(d, i) ==
    LET ind == Indentation(d[i])
        c == d[i][ind + 1]
        n == LeadingRun(SubSeq(d[i], ind + 1, Len(d[i])), c)
        t == Terminator(d, i + 1, {j \in 1..Len(d) : ClosingFence(d[j], c, n, ind)})
    IN  [k \in 1..(t - i - 1) |-> Unindent(d[i + k], ind)]

\* Attributed: the content lines of the block announced by line i
AttributedContent(d, i) ==
    LET delimited == i < Len(d) /\ Trim(d[i + 1]) = Delimiter
        from == IF delimited THEN i + 2 ELSE i + 1
        t == Terminator(d, from,
                 {j \in 1..Len(d) : \/ Trim(d[j]) = Delimiter
                                    \/ ~delimited /\ Len(Trim(d[j])) = 0})
    IN  SubSeq(d, from, t - 1)

\* NamedBlock: the content lines of the block announced by lines i and i + 1
NamedBlockContent(d, i) ==
    LET t == Terminator(d, i + 2, {j \in 1..Len(d) : DirectiveLine(d[j], EndSrc)})
    IN  SubSeq(d, i + 2, t - 1)

\* InlineAttributed: the content lines of the block announced by line i
InlineAttributedContent(d, nm, i) ==
    IF DoublePeriod(d[i], nm)
    THEN LET t == Terminator(d, i + 1, {j \in 1..Len(d) : IsBlockTag(Trim(d[j]))})
         IN  <<InlineContent(d[i], nm)>> \o
             (IF t <= Len(d) THEN WithoutTrailingBlanks(SubSeq(d, i + 1, t - 1))
                             ELSE SubSeq(d, i + 1, t - 1))
    ELSE LET t == Terminator(d, i + 1, {j \in 1..Len(d) : Len(Trim(d[j])) = 0})
         IN  <<InlineContent(d[i], nm)>> \o SubSeq(d, i + 1, t - 1)

\* the content lines of the block of document d announced by line i
BlockContent(sc, d, nm, i) ==
    CASE sc = "markdown" -> FencedContent(d, i)
      [] sc = "asciidoc" -> AttributedContent(d, i)
      [] sc = "org"      -> NamedBlockContent(d, i)
      [] sc = "textile"  -> InlineAttributedContent(d, nm, i)

\* the content lines of the first block of the requested name
FirstBlockContent ==
    BlockContent(scanner, doc, name, FirstBlock(scanner, doc, name))

\* a generic line splitter: the pieces of text between newline characters
RECURSIVE SplitLines(_)
SplitLines(text) ==
    LET nl == Least({j \in 1..Len(text) : text[j] = "\n"}, 0)
    IN  IF nl = 0 THEN <<text>>
        ELSE <<SubSeq(text, 1, nl - 1)>> \o SplitLines(SubSeq(text, nl + 1, Len(text)))

\* extract returned success with exactly these lines, newline-separated
ReturnedLines(ls) == result.kind = "Ok" /\ SplitLines(result.text) = ls

(***************************************************************************)
(* The claims                                                              *)
(***************************************************************************)

\* C1: a document with no block of the requested name yields an error of
\* kind NotFound with every scanner, never a success.
C1_NoBlockNotFound ==
    (Done /\ MatchingBlocks(scanner, doc, name) = {}) => result.kind = "NotFound"

\* C2: a document with exactly one block of the requested name, of N >= 1
\* content lines, yields exactly those lines (stripped), in order, separated
\* by single newlines, with nothing before or after.
C2_OneBlockJoined ==
    (/\ Done
     /\ Cardinality(MatchingBlocks(scanner, doc, name)) = 1
     /\ Len(FirstBlockContent) >= 1)
    => ReturnedLines(FirstBlockContent)

\* line i of document d announces a block, of any name
CandidateAt(sc, d, i) ==
    CASE sc = "markdown" -> FenceOpening(d[i], <<>>)
      [] sc = "asciidoc" -> StartsWith(Trim(d[i]), <<"[">>)
      [] sc = "org"      -> DirectiveLine(d[i], NameDirective)
      [] sc = "textile"  -> StartsWith(Trim(d[i]), Bc)

\* the document holds a block of another name
HasOtherBlock ==
    \E i \in 1..Len(doc) :
        CandidateAt(scanner, doc, i) /\ ~MatchingBlockAt(scanner, doc, name, i)

\* what extract returns for a block of these content lines
Returned(content) ==
    IF Len(content) = 0 THEN result.kind = "NotFound" ELSE ReturnedLines(content)

\* C3: among several candidate blocks of which exactly one has the requested
\* name, the result is exactly the content of that one, wherever the others
\* stand.
C3_OnlyMatchingBlock ==
    (/\ Done
     /\ Cardinality(MatchingBlocks(scanner, doc, name)) = 1
     /\ HasOtherBlock)
    => Returned(FirstBlockContent)

\* C4: of two or more blocks of the requested name the first in document
\* order is returned, and nothing of a later one.
C4_FirstMatchWins ==
    (Done /\ Cardinality(MatchingBlocks(scanner, doc, name)) >= 2)
    => Returned(FirstBlockContent)

\* C5: the asciidoc and org scanners return the contiguous run of source
\* lines between the block start and its terminator, each line as it stands
\* in the source.
C5_VerbatimRun ==
    (/\ Done
     /\ scanner \in {"asciidoc", "org"}
     /\ FirstBlock(scanner, doc, name) # 0
     /\ Len(FirstBlockContent) >= 1)
    => /\ ReturnedLines(FirstBlockContent)
       /\ \E a \in 1..Len(doc) :
             FirstBlockContent = SubSeq(doc, a, a + Len(FirstBlockContent) - 1)

\* the markdown scanner reads its next line with a block open
ReadsInFence == scanner = "markdown" /\ in_fence /\ Running

\* the step collected this content line, and did not leave the loop
Collected(content) == lines' = Append(lines, content) /\ ~stopped' /\ ~Done'

\* C6: with a block open (fence character c, run N, indentation I) a line
\* ends the block if and only if its indentation is I, its first character
\* after it is c and its run of c is at least N; that line is not collected,
\* and every other line is collected as content.
C6_ClosingRule ==
    [][ReadsInFence =>
         IF ClosingFence(doc[pos], fence_char, fence_count, fence_indent)
         THEN stopped' /\ lines' = lines
         ELSE \E k \in {0, fence_indent} :
                  Collected(SubSeq(doc[pos], k + 1, Len(doc[pos])))]_vars

\* Fenced: the first block of the name holds a fenced example delimited by
\* runs of the same character strictly shorter than the opening run
HasNestedFence(d, nm) ==
    LET i == FirstBlock("markdown", d, nm)
        ind == Indentation(d[i])
        c == d[i][ind + 1]
        n == LeadingRun(SubSeq(d[i], ind + 1, Len(d[i])), c)
        t == Terminator(d, i + 1, {j \in 1..Len(d) : ClosingFence(d[j], c, n, ind)})
    IN  /\ i # 0
        /\ t <= Len(d)
        /\ \E j, l \in (i + 1)..(t - 1) :
              /\ j < l
              /\ \E k \in 3..(n - 1) :
                    /\ \E a \in 0..Len(d[j]) : FenceLine(d[j], a, c, k)
                    /\ \E a \in 0..Len(d[l]) : FenceLine(d[l], a, c, k)

\* C7: a fenced example nested in the open block and delimited by a strictly
\* shorter run of the same character is returned in full, its own fence
\* lines included, and the block ends only at the outer closing fence.
C7_NestedFenceKept ==
    (Done /\ scanner = "markdown" /\ HasNestedFence(doc, name))
    => ReturnedLines(FencedContent(doc, FirstBlock("markdown", doc, name)))

\* a run of more than n characters c followed by a tag string
LongerOpening(line, c, n) ==
    \E ind \in 0..Len(line), k \in (n + 1)..Len(line) :
        FenceLine(line, ind, c, k) /\ ind + k < Len(line)

\* C8: with a block open, a line that is a fence opening (a run followed by
\* a tag) of a longer run than the one that opened the block is collected as
\* content and does not end the block.
C8_LongerOpeningIsContent ==
    [][(ReadsInFence /\ LongerOpening(doc[pos], fence_char, fence_count))
         => \E k \in {0, fence_indent} :
                Collected(SubSeq(doc[pos], k + 1, Len(doc[pos])))]_vars

\* C9: a content line that starts with the I whitespace characters of the
\* opening indentation is collected without them, any other content line is
\* collected as it stands; no other character is ever removed.
C9_IndentationStripped ==
    [][(ReadsInFence
          /\ ~ClosingFence(doc[pos], fence_char, fence_count, fence_indent))
         => Collected(Unindent(doc[pos], fence_indent))]_vars

\* C10: while searching, a line opens the block if and only if, after its
\* leading whitespace, it starts with a run of at least 3 equal fence
\* characters and the rest of the line holds the requested name; a run of 1
\* or 2 never opens; the fence character, the exact run and the indentation
\* of the opening line are recorded.
C10_OpeningRule ==
    [][(scanner = "markdown" /\ ~in_fence /\ Running) =>
         /\ in_fence' <=> FenceOpening(doc[pos], name)
         /\ in_fence' => FenceLine(doc[pos], fence_indent', fence_char', fence_count')
         /\ (\E ind \in 0..Len(doc[pos]), k \in 1..2, c \in {Backtick, Tilde} :
                FenceLine(doc[pos], ind, c, k)) => ~in_fence'
         /\ lines' = lines]_vars

\* a run of 2 was passed over and an indented run of 4 then opened the block
C10_Witness ==
    /\ scanner = "markdown"
    /\ in_fence
    /\ pos = 3
    /\ doc[1] = Rep(Backtick, 2) \o name
    /\ fence_char = Backtick
    /\ fence_count = 4
    /\ fence_indent = 1

(***************************************************************************)
(* Documents about names: in each dialect a block of the requested name,   *)
(* blocks whose name holds it as a proper substring, content and closers.  *)
(***************************************************************************)
MarkdownNameLines ==
    { Rep(Backtick, 3) \o <<"x">>,
      Rep(Backtick, 3) \o <<"x", "y">>,
      Rep(Tilde, 3) \o <<"r", " ", "y", "x">>,
      Rep(Backtick, 3) \o <<"y">>,
      Rep(Backtick, 3),
      <<"a">> }

AsciidocNameLines ==
    { SourceRust \o IdAttr(<<"x">>) \o <<"]">>,
      SourceRust \o IdAttr(<<"x", "y">>) \o <<"]">>,
      ShortRust \o IdAttr(<<"y", "x">>) \o <<"]">>,
      Delimiter,
      <<"a">>,
      <<>> }

OrgNameLines ==
    { NameDirective \o <<" ", "x">>,
      NameDirective \o <<" ", "x", "y">>,
      NameDirective \o <<" ", "y", "x">>,
      BeginSrc \o <<" ">> \o Rust,
      EndSrc,
      <<"a">> }

TextileNameLines ==
    { <<"b", "c", "(", "r", "u", "s", "t", "#", "x", ")", ".", " ", "a">>,
      <<"b", "c", "(", "r", "u", "s", "t", "#", "x", "y", ")", ".", " ", "a">>,
      <<"b", "c", "[", "r", "u", "s", "t", "]", "(", "#", "y", "x", ")", ".", " ", "a">>,
      <<"b", "c", "(", "#", "x", "y", ")", "[", "r", "u", "s", "t", "]", ".", ".", " ", "a">>,
      <<"b", "c", "(", "#", "x", ")", "[", "r", "u", "s", "t", "]", ".", ".", " ", "a">>,
      <<"p", ".", " ", "a">>,
      <<"a">>,
      <<>> }

InitNames ==
    /\ name \in Names
    /\ \/ scanner = "markdown" /\ doc \in DocumentsOver(MarkdownNameLines)
       \/ scanner = "asciidoc" /\ doc \in DocumentsOver(AsciidocNameLines)
       \/ scanner = "org" /\ doc \in DocumentsOver(OrgNameLines)
       \/ scanner = "textile" /\ doc \in DocumentsOver(TextileNameLines)
    /\ InitLocals

\* extract with any of the four collect functions on the documents about names
SpecNames == InitNames /\ [][Next]_vars

\* nm stands in text as a whole whitespace-separated word
OccursAsToken(text, nm) ==
    \E p \in 1..(Len(text) - Len(nm) + 1) :
        /\ SubSeq(text, p, p + Len(nm) - 1) = nm
        /\ p = 1 \/ IsWhitespace(text[p - 1])
        /\ p + Len(nm) - 1 = Len(text) \/ IsWhitespace(text[p + Len(nm)])

\* Fenced: a fence of at least 3 characters whose tag holds nm only inside
\* a longer word
TagMerelyContains(line, nm) ==
    \E ind \in 0..Len(line), k \in 3..Len(line), c \in {Backtick, Tilde} :
        /\ FenceLine(line, ind, c, k)
        /\ Contains(SubSeq(line, ind + k + 1, Len(line)), nm)
        /\ ~OccursAsToken(SubSeq(line, ind + k + 1, Len(line)), nm)

\* Attributed: an attribute line for rust that holds nm, but nowhere as a
\* whole quoted value
IdMerelyContains(line, nm) ==
    /\ StartsWith(Trim(line), SourceRust) \/ StartsWith(Trim(line), ShortRust)
    /\ Contains(line, nm)
    /\ ~Contains(line, <<Quote>> \o nm \o <<Quote>>)

\* NamedBlock: a name line whose argument holds nm and is longer
NameMerelyContains(line, nm) ==
    /\ DirectiveLine(line, NameDirective)
    /\ Contains(DirectiveArgument(line, NameDirective), nm)
    /\ DirectiveArgument(line, NameDirective) # nm

\* InlineAttributed: a bc line that holds nm, but no attribute group of nm
GroupMerelyContains(line, nm) ==
    /\ StartsWith(Trim(line), Bc)
    /\ Contains(line, nm)
    /\ \A g \in AttributeGroups(nm) : ~Contains(line, g)

\* the scanner reads its next line while it searches for the block
Searching == Running /\ ~in_fence /\ ~in_block

\* the line just read opened the block (org: or left the name pending)
Opened == in_fence' \/ in_block' \/ found_name'

\* the three scanners that compare the whole id or name
C11_ExactIds ==
    /\ (scanner = "asciidoc" /\ IdMerelyContains(doc[pos], name)) => ~Opened
    /\ (scanner = "org" /\ NameMerelyContains(doc[pos], name)) => ~Opened
    /\ (scanner = "textile" /\ GroupMerelyContains(doc[pos], name)) => ~Opened

OpenAtEndOfInput ==
    /\ result.kind = "none"
    /\ ~stopped
    /\ pos > Len(doc)
    /\ in_fence \/ in_block

\* C12: when end-of-input is reached while the matched block is still open
\* (a fence never closed, an org block with no end directive, a textile
\* double-period block with no structural block after it), extract does not
\* fail: it returns the content lines collected so far as a success.
C12_OpenBlockNeverFails ==
    [][OpenAtEndOfInput => /\ result'.kind = "Ok"
                           /\ SplitLines(result'.text) = lines]_vars

\* C12, amended: when end-of-input is reached while the matched block is
\* still open and at least one content line has been collected, extract
\* returns the collected lines as a success; with no line collected it
\* reports not-found.
C12_OpenBlockAtEndOfInput ==
    [][OpenAtEndOfInput =>
         IF Len(lines) >= 1
         THEN result'.kind = "Ok" /\ SplitLines(result'.text) = lines
         ELSE result'.kind = "NotFound"]_vars

\* an org block with no end directive returned its two lines
C12_Witness ==
    /\ scanner = "org"
    /\ in_block
    /\ ~stopped
    /\ pos = Len(doc) + 1
    /\ Len(lines) = 2
    /\ result.kind = "Ok"

(***************************************************************************)
(* Documents about the extent of an asciidoc block: an attribute line of   *)
(* the requested name and one without id, the delimiter alone, indented    *)
(* and among other text, content and blank lines.                          *)
(***************************************************************************)
AsciidocBlockLines ==
    { ShortRust \o IdAttr(<<"x">>) \o <<"]">>,
      SourceRust \o <<"]">>,
      Delimiter,
      <<" ">> \o Delimiter,
      <<"a">> \o Delimiter,
      <<"a">>,
      <<>> }

InitAsciidocBlocks ==
    /\ scanner = "asciidoc"
    /\ name \in Names
    /\ doc \in DocumentsOver(AsciidocBlockLines)
    /\ InitLocals

\* extract with the collect of asciidoc.rs on the documents about the extent of a block
SpecAsciidocBlocks == InitAsciidocBlocks /\ [][NextAsciidoc]_vars

\* the asciidoc scanner reads its next line with the block open
ReadsInBlock == scanner = "asciidoc" /\ Running /\ in_block

\* the step ended the block and collected nothing
Ended == stopped' /\ lines' = lines

\* C13: when the line right after the matching attribute line is the
\* delimiter ---- (surrounding whitespace aside), the block is delimited:
\* that delimiter is not collected, every following line, blank lines and
\* lines that hold ---- among other text included, is collected, and
\* collection stops at the first following line that is ----, which is not
\* collected.
C13_DelimitedBlock ==
    [][ReadsInBlock =>
         /\ (~delimiter_checked /\ Trim(doc[pos]) = Delimiter)
                => use_delimiters' /\ lines' = lines /\ ~stopped'
         /\ (delimiter_checked /\ use_delimiters)
                => IF Trim(doc[pos]) = Delimiter
                   THEN Ended
                   ELSE Collected(doc[pos]) /\ use_delimiters']_vars

\* a delimited block collected a line that holds the delimiter among other
\* text and ended at the closing delimiter
C13_Witness ==
    /\ scanner = "asciidoc"
    /\ use_delimiters
    /\ stopped
    /\ lines = << <<"a">> \o Delimiter >>
    /\ Trim(doc[pos - 1]) = Delimiter

\* the lines of a block without delimiters after its first one
C14_LaterLines ==
    (delimiter_checked /\ ~use_delimiters)
        => IF Len(Trim(doc[pos])) = 0 \/ Trim(doc[pos]) = Delimiter
           THEN Ended
           ELSE Collected(doc[pos])

\* C14: when the line right after the matching attribute line is not the
\* delimiter, the block has no delimiters: that line is collected as the
\* first content line, and collection stops at the first following line
\* that is blank or is ----, neither of which is collected.
C14_UndelimitedBlock ==
    [][ReadsInBlock =>
         /\ (~delimiter_checked /\ Trim(doc[pos]) # Delimiter)
                => Collected(doc[pos]) /\ ~use_delimiters'
         /\ C14_LaterLines]_vars

\* C14, amended: when the line right after the matching attribute line is
\* neither the delimiter nor blank, it is collected as the first content
\* line and collection stops at the first following line that is blank or
\* is ----, neither of which is collected; when that line is blank the
\* block ends at once with nothing collected.
C14_UndelimitedBlockFromNonBlank ==
    [][ReadsInBlock =>
         /\ (~delimiter_checked /\ Trim(doc[pos]) # Delimiter)
                => /\ ~use_delimiters'
                   /\ IF Len(Trim(doc[pos])) = 0
                      THEN Ended
                      ELSE Collected(doc[pos])
         /\ C14_LaterLines]_vars

\* a block without delimiters collected two lines and ended at the
\* delimiter of an outer block
C14_Witness ==
    /\ scanner = "asciidoc"
    /\ delimiter_checked
    /\ ~use_delimiters
    /\ stopped
    /\ Len(lines) = 2
    /\ Trim(doc[pos - 1]) = Delimiter

\* C15: a line opens the block if and only if its trimmed text starts with
\* [source,rust or [,rust and it carries an attribute id="value" whose value
\* is exactly the requested name, whatever other attributes stand before or
\* after it; a line with no id attribute, with another id or for another
\* language never opens a block.
C15_AttributeLineOpens ==
    [][(scanner = "asciidoc" /\ Searching)
         => (in_block' <=> AttributeLine(doc[pos], name))]_vars

\* NamedBlock: the document holds a name line of the requested name and,
\* later, a begin directive for rust
HasNameAndBegin ==
    \E i, j \in 1..Len(doc) :
        i < j /\ NameLine(doc[i], name) /\ BeginLine(doc[j])

\* C16: a block opens only when a begin directive for rust is the very next
\* line after a name line of the requested name; any other line in between
\* discards the pending name, and a document whose begin directives are
\* never right after the matching name line yields not-found.
C16_AdjacencyRequired ==
    (/\ Done
     /\ scanner = "org"
     /\ HasNameAndBegin
     /\ \A i \in 1..(Len(doc) - 1) :
           ~(NameLine(doc[i], name) /\ BeginLine(doc[i + 1])))
    => result.kind = "NotFound"

\* the org scanner reads its next line with the block open
ReadsInOrgBlock == scanner = "org" /\ Running /\ in_block

\* C18: once the block is open, collection stops at the first line whose
\* trimmed text begins, in any letter case, with #+END_SRC; that line is not
\* collected and every line before it since the begin directive is.
C18_EndDirectiveCloses ==
    [][ReadsInOrgBlock =>
         IF DirectiveLine(doc[pos], EndSrc)
         THEN Ended
         ELSE Collected(doc[pos])]_vars

(***************************************************************************)
(* Documents about the begin directive: its argument rust alone, with      *)
(* further arguments after a space or a tab, joined to the directive,      *)
(* another language, no argument.                                          *)
(***************************************************************************)
OrgBeginLines ==
    { NameDirective \o <<" ", "x">>,
      BeginSrc \o <<" ">> \o Rust,
      BeginSrc \o <<" ">> \o Rust \o <<" ", "-", "n">>,
      BeginSrc \o <<" ">> \o Rust \o <<"\t", "-", "n">>,
      BeginSrc \o Rust,
      BeginSrc \o <<" ">> \o Rust \o <<"y">>,
      BeginSrc \o <<" ", "r", "u", "b", "y">>,
      BeginSrc,
      EndSrc,
      <<"a">> }

InitOrgBegin ==
    /\ scanner = "org"
    /\ name \in Names
    /\ doc \in DocumentsOver(OrgBeginLines)
    /\ InitLocals

\* extract with the collect of org.rs on the documents about the begin directive
SpecOrgBegin == InitOrgBegin /\ [][NextOrg]_vars

\* C17: with the name pending, the begin directive opens the block only when
\* its argument is the language rust: exactly rust, or rust followed by
\* whitespace and further arguments; a begin directive for another language,
\* or with no whitespace-separated language argument, opens nothing.
C17_RustArgumentOpens ==
    [][(scanner = "org" /\ Searching /\ found_name)
         => (in_block' <=> BeginLine(doc[pos]))]_vars

(***************************************************************************)
(* Documents about letter case: each directive in upper, lower and mixed   *)
(* case.                                                                   *)
(***************************************************************************)
OrgCaseLines ==
    { NameDirective \o <<" ", "x">>,
      <<"#", "+", "n", "a", "m", "e", ":", " ", "x">>,
      <<"#", "+", "N", "a", "m", "e", ":", " ", "x">>,
      BeginSrc \o <<" ">> \o Rust,
      <<"#", "+", "b", "e", "g", "i", "n", "_", "s", "r", "c", " ">> \o Rust,
      <<"#", "+", "B", "e", "g", "i", "n", "_", "S", "r", "c", " ">> \o Rust,
      EndSrc,
      <<"#", "+", "e", "n", "d", "_", "s", "r", "c">>,
      <<"#", "+", "E", "n", "d", "_", "S", "r", "c">>,
      <<"a">> }

InitOrgCase ==
    /\ scanner = "org"
    /\ name \in Names
    /\ doc \in DocumentsOver(OrgCaseLines)
    /\ InitLocals

\* extract with the collect of org.rs on the documents about letter case
SpecOrgCase == InitOrgCase /\ [][NextOrg]_vars

\* the line with its directive token, if it starts with one, in upper case
InUpperCase(line) ==
    LET ind == Indentation(line)
        tokens == {t \in {NameDirective, BeginSrc, EndSrc} : DirectiveLine(line, t)}
    IN  IF tokens = {} THEN line
        ELSE LET t == CHOOSE t \in tokens : TRUE
             IN  SubSeq(line, 1, ind) \o t \o SubSeq(line, ind + Len(t) + 1, Len(line))

\* the document with the directive token of every line in upper case, but
\* for the n lines after line i + 1, which stay as they are
InUpperCaseBut(d, i, n) ==
    [k \in 1..Len(d) |-> IF i # 0 /\ k >= i + 2 /\ k <= i + 1 + n THEN d[k] ELSE InUpperCase(d[k])]

\* the document with its directive tokens in upper case, where line i
\* announces the first block of the name (0: there is none)
InUpperCaseAround(d, i) ==
    InUpperCaseBut(d, i, IF i = 0 THEN 0 ELSE Len(NamedBlockContent(d, i)))

\* the document with every directive token in upper case; the content lines
\* of the first block of the name are no directives and stay as they are.
\* Two documents that differ only in the letter case of their directive
\* tokens have the same document in upper case.
DirectivesInUpperCase(d) == InUpperCaseAround(d, FirstBlock("org", d, name))

\* C19: two documents that differ only in the letter case of the directive
\* tokens #+NAME:, #+BEGIN_SRC and #+END_SRC (upper, lower or mixed case)
\* yield the same result for the same name: every document yields the result
\* of the document that has all its directive tokens in upper case.
C19_DirectiveCaseIgnored ==
    (Done /\ scanner = "org")
    => /\ result = OrgExtract(doc)
       /\ result = OrgExtract(DirectivesInUpperCase(doc))

\* a block written with lower-case and mixed-case directives was returned
C19_Witness ==
    /\ scanner = "org"
    /\ Len(doc) = 4
    /\ result.kind = "Ok"
    /\ doc[1] = <<"#", "+", "n", "a", "m", "e", ":", " ", "x">>
    /\ doc[2] = <<"#", "+", "B", "e", "g", "i", "n", "_", "S", "r", "c", " ">> \o Rust
    /\ doc[4] = <<"#", "+", "e", "n", "d", "_", "s", "r", "c">>
    /\ DirectivesInUpperCase(doc) # doc

(***************************************************************************)
(* Documents about the opening line of a textile block: the three          *)
(* attribute orderings, another id, another language, no period after the  *)
(* group, no inline content, and a plain bc block whose text holds the     *)
(* attribute group.                                                        *)
(***************************************************************************)
TextileOpeningLines ==
    { <<"b", "c", "(", "r", "u", "s", "t", "#", "x", ")", ".", " ", "a">>,
      <<"b", "c", "[", "r", "u", "s", "t", "]", "(", "#", "x", ")", ".", " ", "a">>,
      <<"b", "c", "(", "#", "x", ")", "[", "r", "u", "s", "t", "]", ".", " ", "a">>,
      <<"b", "c", "(", "r", "u", "s", "t", "#", "x", ")", ".", ".", " ", "a">>,
      <<"b", "c", "(", "r", "u", "s", "t", "#", "y", ")", ".", " ", "a">>,
      <<"b", "c", "(", "r", "u", "b", "y", "#", "x", ")", ".", " ", "a">>,
      <<"b", "c", "(", "r", "u", "s", "t", "#", "x", ")", " ", "a">>,
      <<"b", "c", "(", "r", "u", "s", "t", "#", "x", ")", ".">>,
      <<"b", "c", ".", " ", "b", "c", "(", "r", "u", "s", "t", "#", "x", ")", ".", " ", "a">>,
      <<"p", ".", " ", "a">>,
      <<"a">>,
      <<>> }

InitTextileOpening ==
    /\ scanner = "textile"
    /\ name \in Names
    /\ doc \in DocumentsOver(TextileOpeningLines)
    /\ InitLocals

\* extract with the collect of textile.rs on the documents about the opening line
SpecTextileOpening == InitTextileOpening /\ [][NextTextile]_vars

\* InlineAttributed: the line begins with bc and one of the three attribute
\* orderings for rust and nm, with a period right after it
BeginsWithGroup(line, nm) ==
    \E g \in AttributeGroups(nm) : StartsWith(Trim(line), g \o <<".">>)

\* C20: a line opens the block only if it begins with bc followed by one of
\* the three attribute orderings for rust and the requested id, bc(rust#ID),
\* bc[rust](#ID) or bc(#ID)[rust], with one or two periods right after it;
\* each of the three orderings opens the block, and a line with another
\* language, another id or no period after the group does not.
C20_AttributeGroupOpens ==
    [][(scanner = "textile" /\ Searching) =>
         /\ in_block' => BeginsWithGroup(doc[pos], name)
         /\ (BeginsWithGroup(doc[pos], name) /\ Len(InlineContent(doc[pos], name)) > 0)
                => in_block']_vars

(***************************************************************************)
(* InlineAttributed: the inline content of the opening line                *)
(***************************************************************************)
\* identifiers of textile blocks, one of them with a space in it
TextileInlineNames == {<<"x">>, <<"x", " ", "y">>}

\* opening lines for both identifiers in the three attribute orderings, with
\* one and with two periods, and lines that open nothing
TextileInlineLines ==
    { <<"b", "c", "(", "r", "u", "s", "t", "#", "x", " ", "y", ")", ".", " ", "a">>,
      <<"b", "c", "[", "r", "u", "s", "t", "]", "(", "#", "x", " ", "y", ")", ".", " ", "a">>,
      <<"b", "c", "(", "r", "u", "s", "t", "#", "x", ")", ".", " ", "a">>,
      <<"b", "c", "(", "r", "u", "s", "t", "#", "x", ")", ".", ".", " ", "a", " ", "b">>,
      <<"b", "c", "(", "#", "x", ")", "[", "r", "u", "s", "t", "]", ".", " ", "a">>,
      <<"p", ".", " ", "a">>,
      <<"a">>,
      <<>> }

InitTextileInline ==
    /\ scanner = "textile"
    /\ name \in TextileInlineNames
    /\ doc \in DocumentsOver(TextileInlineLines)
    /\ InitLocals

\* extract with the collect of textile.rs on the documents about inline content
SpecTextileInline == InitTextileInline /\ [][NextTextile]_vars

\* C21: when a line opens the block, the first content line is the text of
\* that line after the attribute group, its period or periods and the first
\* space that follows them, so that nothing of the introducer, the attribute
\* group or the identifier is collected, whatever the identifier is.
C21_InlineContentAfterGroup ==
    [][(scanner = "textile" /\ Searching /\ in_block')
           => lines' = <<InlineContent(doc[pos], name)>>]_vars

(***************************************************************************)
(* InlineAttributed: the two block modes                                   *)
(***************************************************************************)
\* opening lines with one and with two periods, an opening line with one
\* period whose inline content holds two periods, a structural block, content
\* and blank lines
TextileBlockLines ==
    { <<"b", "c", "(", "r", "u", "s", "t", "#", "x", ")", ".", " ", "a">>,
      <<"b", "c", "(", "r", "u", "s", "t", "#", "x", ")", ".", ".", " ", "a">>,
      <<"b", "c", "(", "r", "u", "s", "t", "#", "x", ")", ".", " ", "a", ".", ".", "b">>,
      <<"p", ".", " ", "a">>,
      <<"a">>,
      <<" ">>,
      <<>> }

InitTextileBlocks ==
    /\ scanner = "textile"
    /\ name \in Names
    /\ doc \in DocumentsOver(TextileBlockLines)
    /\ InitLocals

\* extract with the collect of textile.rs on the documents about block modes
SpecTextileBlocks == InitTextileBlocks /\ [][NextTextile]_vars

\* the textile scanner reads a line of the open block
ReadsInTextileBlock == scanner = "textile" /\ Running /\ in_block

\* C22: the mode of a block is decided by the period or periods right after
\* the attribute group of its opening line, whatever the inline content
\* holds; a block opened with one period collects the lines that are not
\* blank, stops at the first blank line without collecting it, and nothing is
\* collected after the stop.
C22_SinglePeriodStopsAtBlank ==
    [][/\ (scanner = "textile" /\ Searching /\ in_block')
             => (is_double_period' <=> DoublePeriod(doc[pos], name))
       /\ (ReadsInTextileBlock /\ ~is_double_period)
             => IF Len(Trim(doc[pos])) = 0 THEN Ended ELSE Collected(doc[pos])
       /\ stopped => lines' = lines]_vars

\* C23: a block opened with a double period keeps collecting across blank
\* lines and stops only at the first line that is_block_tag recognizes as a
\* new structural block: the result is the inline content followed by the
\* lines up to that line, which is not collected, without the blank lines
\* right before it and with the blank lines between content lines; with no
\* such line everything up to end-of-input is collected.
C23_DoublePeriodBlock ==
    LET i == FirstBlock("textile", doc, name)
    IN  (Done /\ scanner = "textile" /\ i > 0 /\ DoublePeriod(doc[i], name))
            => Returned(InlineAttributedContent(doc, name, i))

\* a double-period block kept the blank line between its content lines and
\* ended, before the end of the document, at a structural block
C23_Witness ==
    /\ Done
    /\ scanner = "textile"
    /\ Len(doc) = 4
    /\ DoublePeriod(doc[1], name)
    /\ Len(doc[2]) = 0
    /\ doc[3] = <<"a">>
    /\ IsBlockTag(doc[4])
    /\ result = [kind |-> "Ok", text |-> <<"a", "\n", "\n", "a">>]

(***************************************************************************)
(* InlineAttributed: the Block-Boundary Classifier                         *)
(***************************************************************************)
\* a double-period opening line followed by lines for the classifier:
\* structural blocks with and without formatting, a name outside the fixed
\* set, lines with no period after the name or after the formatting, a call
\* of a function named p, content and the empty line
TextileTagLines ==
    { <<"b", "c", "(", "r", "u", "s", "t", "#", "x", ")", ".", ".", " ", "a">>,
      <<"p", ".", " ", "a">>,
      <<"h", "1", ">", ".", " ", "a">>,
      <<"t", "a", "b", "l", "e", "(", "c", ")", ".", " ", "a">>,
      <<"p", "[", "e", "n", "]", ".", " ", "a">>,
      <<"p", "(", ".", " ", "a">>,
      <<"p", "r", "e", "=", ".", " ", "a">>,
      <<"n", "o", "t", "e", "x", "t", "i", "l", "e", ".", " ", "a">>,
      <<"p", ")", ")", ".", " ", "a">>,
      <<"q", ".", " ", "a">>,
      <<"p", " ", "a">>,
      <<"p", "(", "c", ")", " ", "a">>,
      <<"p", "(", "a", ".", "b", ")">>,
      <<"a">>,
      <<>> }

InitTextileTags ==
    /\ scanner = "textile"
    /\ name \in Names
    /\ doc \in DocumentsOver(TextileTagLines)
    /\ InitLocals

\* extract with the collect of textile.rs on the documents for the classifier
SpecTextileTags == InitTextileTags /\ [][NextTextile]_vars

\* the index of the character that closes the group whose opening character
\* stands before index i, groups of the same kind nested in it skipped, or 0
RECURSIVE GroupEnd(_, _, _, _, _)
GroupEnd(s, i, open, close, depth) ==
    IF i > Len(s) THEN 0
    ELSE IF s[i] = close
         THEN IF depth = 1 THEN i ELSE GroupEnd(s, i + 1, open, close, depth - 1)
    ELSE IF s[i] = open THEN GroupEnd(s, i + 1, open, close, depth + 1)
    ELSE GroupEnd(s, i + 1, open, close, depth)

\* from index i on, s is zero or more formatting items, each an alignment
\* marker, a padding parenthesis, a parenthesis group or a bracket group,
\* and then a period
RECURSIVE FormattingThenPeriod(_, _)
FormattingThenPeriod(s, i) ==
    /\ i <= Len(s)
    /\ \/ s[i] = "."
       \/ s[i] \in {"<", ">", "=", "(", ")"} /\ FormattingThenPeriod(s, i + 1)
       \/ /\ s[i] = "("
          /\ GroupEnd(s, i + 1, "(", ")", 1) > 0
          /\ FormattingThenPeriod(s, GroupEnd(s, i + 1, "(", ")", 1) + 1)
       \/ /\ s[i] = "["
          /\ GroupEnd(s, i + 1, "[", "]", 1) > 0
          /\ FormattingThenPeriod(s, GroupEnd(s, i + 1, "[", "]", 1) + 1)

\* the line begins with a structural-block name followed by formatting items
\* and a period
StructuralBlock(line) ==
    \E k \in 1..Len(BlockTypes) :
        /\ StartsWith(line, BlockTypes[k])
        /\ FormattingThenPeriod(SliceFrom(line, Len(BlockTypes[k])), 1)

\* C24: in a double-period block a line is taken for a boundary exactly when
\* it begins with one of the fixed structural-block names followed by zero
\* or more formatting items (alignment markers, parenthesis or bracket
\* groups, padding parentheses) and then a period; every other line, the
\* empty line among them, is collected as content.
C24_BoundaryExactlyStructuralBlock ==
    [][(ReadsInTextileBlock /\ is_double_period)
           => /\ stopped' <=> StructuralBlock(Trim(doc[pos]))
              /\ ~StructuralBlock(Trim(doc[pos])) => Collected(doc[pos])]_vars

\* a double-period opening line followed by structural blocks whose
\* attribute group holds a nested group, of the same and of the other kind
TextileNestedLines ==
    { <<"b", "c", "(", "r", "u", "s", "t", "#", "x", ")", ".", ".", " ", "a">>,
      <<"t", "a", "b", "l", "e", "(", "a", "(", "b", ")", "c", ")", ".", " ", "a">>,
      <<"p", "(", "(", "a", ")", ")", ".", " ", "a">>,
      <<"p", "[", "a", "[", "b", "]", "c", "]", ".", " ", "a">>,
      <<"p", "(", "a", "[", "b", "]", ")", ".", " ", "a">>,
      <<"p", "[", "a", "(", "b", ")", "]", ".", " ", "a">>,
      <<"p", ".", " ", "a">>,
      <<"a">>,
      <<>> }

InitTextileNested ==
    /\ scanner = "textile"
    /\ name \in Names
    /\ doc \in DocumentsOver(TextileNestedLines)
    /\ InitLocals

\* extract with the collect of textile.rs on the documents with nested groups
SpecTextileNested == InitTextileNested /\ [][NextTextile]_vars

\* s begins with a group opened by open that holds a balanced nested group
\* of the same kind and is followed by a period
NestedGroupThenPeriod(s, open, close) ==
    LET end == GroupEnd(s, 2, open, close, 1)
    IN  /\ Len(s) > 0 /\ s[1] = open
        /\ end > 0
        /\ \E j \in 2..(end - 1) : s[j] = open
        /\ end < Len(s) /\ s[end + 1] = "."

\* the line is a structural-block name followed by a parenthesis group with
\* parentheses nested in it, or a bracket group with brackets nested in it,
\* and a period
NestedGroupBlock(line) ==
    \E k \in 1..Len(BlockTypes) :
        /\ StartsWith(line, BlockTypes[k])
        /\ \/ NestedGroupThenPeriod(SliceFrom(line, Len(BlockTypes[k])), "(", ")")
           \/ NestedGroupThenPeriod(SliceFrom(line, Len(BlockTypes[k])), "[", "]")

\* C25: a line made of a structural-block name, an attribute group with a
\* balanced nested group inside it (parentheses inside parentheses, brackets
\* inside brackets) and a period is recognized as a boundary: it ends the
\* double-period block.
C25_NestedGroupsAccepted ==
    [][(ReadsInTextileBlock /\ is_double_period /\ NestedGroupBlock(Trim(doc[pos])))
           => stopped']_vars

(***************************************************************************)
(* The outcomes of extract: reads that fail, lines that are malformed      *)
(***************************************************************************)
\* a block of the name, lines with malformed fence, attribute or directive
\* syntax and a content line, for each scanner
MalformedMarkdownLines ==
    {
      <<Backtick, Backtick, Backtick, "r", "u", "s", "t", " ", "x">>,
      <<Backtick, Backtick, "r", "u", "s", "t", " ", "x">>,
      <<Backtick, Backtick, Backtick>>,
      <<"a">>,
      <<>> }

MalformedAsciidocLines ==
    {
      <<"[", "s", "o", "u", "r", "c", "e", ",", "r", "u", "s", "t", ",", "i", "d", "=", "\"", "x", "\"", "]">>,
      <<"[", "s", "o", "u", "r", "c", "e", ",", "r", "u", "s", "t", ",", "i", "d", "=", "\"", "x", "]">>,
      <<"[", "s", "o", "u", "r", "c", "e", ",", "r", "u", "s", "t", ",", "i", "d", "=", "x", "]">>,
      <<"-", "-", "-", "-">>,
      <<"a">> }

MalformedOrgLines ==
    {
      <<"#", "+", "N", "A", "M", "E", ":", " ", "x">>,
      <<"#", "+", "N", "A", "M", "E", E1, E2, ":", " ", "x">>,
      <<"#", "+", "B", "E", "G", "I", "N", "_", "S", "R", "C", " ", "r", "u", "s", "t">>,
      <<"#", "+", "E", "N", "D", "_", "S", "R", "C">>,
      <<"a">> }

MalformedTextileLines ==
    {
      <<"b", "c", "(", "r", "u", "s", "t", "#", "x", ")", ".", " ", "a">>,
      <<"b", "c", "(", "r", "u", "s", "t", "#", "x", ".", " ", "a">>,
      <<"b", "c", "(", "r", "u", "s", "t", "#", "x", ")", " ", "a">>,
      <<"b", "c", "(", "r", "u", "s", "t", "#", "x", ")", ".", ".", " ", "a">>,
      <<"p", "(", "(", "c", ")", ")", ".", " ", "a">>,
      <<"a">>,
      <<>> }

Scanners == {"markdown", "asciidoc", "org", "textile"}

\* the documents a stream given to the scanner sc may hold
Streams(sc) ==
    CASE sc = "markdown" -> DocumentsOver(MalformedMarkdownLines)
      [] sc = "asciidoc" -> DocumentsOver(MalformedAsciidocLines)
      [] sc = "org"      -> DocumentsOver(MalformedOrgLines)
      [] sc = "textile"  -> DocumentsOver(MalformedTextileLines)

MalformedInputs ==
    /\ scanner \in Scanners
    /\ name \in Names
    /\ doc \in Streams(scanner)

InitMalformed == MalformedInputs /\ InitLocals

\* what extract returns when a read failed: the error of the read
IoError == [kind |-> "Io", text |-> <<>>]

\* let line = line?: the read of the next line fails, collect returns the
\* error and the ? of extract passes it on
ReadError ==
    /\ file = "open"
    /\ result.kind = "none"
    /\ ~stopped
    /\ pos <= Len(doc) + 1
    /\ result' = IoError
    /\ UNCHANGED <<previous, invocation, file, scope, scanner, name, doc, pos, stopped, lines, in_fence, fence_char,
                   fence_count, fence_indent, in_block, delimiter_checked,
                   use_delimiters, found_name, is_double_period>>

NextReadErrors == Next \/ ReadError

\* extract with any of the four collect functions on a stream whose reads
\* may fail
SpecReadErrors == InitMalformed /\ [][NextReadErrors]_vars

\* C26: extract ends in success, in not-found or in an I/O failure and in
\* nothing else; a read that fails ends the scan with the error of the read
\* and no content; a line that was read, malformed or not, never ends the
\* scan with an error: the scan goes on with the next line or stops at the
\* end of the block.
C26_ThreeOutcomes ==
    /\ [](Done => result.kind \in {"Ok", "NotFound", "Io"})
    /\ [][/\ (result.kind = "none" /\ result'.kind = "Io") => result' = IoError
          /\ (Running /\ result'.kind # "Io") => (~Done' /\ pos' = pos + 1)]_vars

(***************************************************************************)
(* lib.rs include_file: the open of the stream before extract              *)
(***************************************************************************)
\* the kinds of the error of open: the file is missing (fs::File::open), or
\* there is no manifest directory or no parent of the source file
OpenErrorKinds == {"NotFound", "Other"}

\* include_file has its arguments, without scope, and no stream yet
InitOpen ==
    /\ Invoked
    /\ scope = FALSE
    /\ scanner \in Scanners
    /\ name \in Names
    /\ doc = <<>>
    /\ file = "closed"
    /\ CollectLocals
    /\ previous = NoResult

\* open returns the file, whose lines are the document, and include_file
\* goes on to extract
OpenFile ==
    /\ item = Parsed
    /\ result.kind = "none"
    /\ file = "closed"
    /\ file' = "open"
    /\ doc' \in Streams(scanner)
    /\ UNCHANGED <<previous, invocation, scope, scanner, name, pos, stopped, lines, in_fence, fence_char,
                   fence_count, fence_indent, in_block, delimiter_checked,
                   use_delimiters, found_name, is_double_period, result>>

\* open returns an error and include_file returns it
OpenError ==
    /\ item = Parsed
    /\ result.kind = "none"
    /\ file = "closed"
    /\ file' = "failed"
    /\ \E kind \in OpenErrorKinds : result' = [kind |-> kind, text |-> <<>>]
    /\ UNCHANGED <<previous, invocation, scope, scanner, name, doc, pos, stopped, lines, in_fence, fence_char,
                   fence_count, fence_indent, in_block, delimiter_checked,
                   use_delimiters, found_name, is_double_period>>

NextOpen == OpenFile \/ OpenError \/ Next

\* include_file from the open of the stream on
SpecOpen == InitOpen /\ [][NextOpen]_vars

\* C27: a failure to open the stream and a missing block are told apart by
\* the kind of the error: the kind NotFound is reported only when the stream
\* was opened and scanned and no block of the name was found, never when the
\* open failed.
C27_NotFoundOnlyForMissingBlock ==
    result.kind = "NotFound" => (file = "open" /\ Len(lines) = 0)

(***************************************************************************)
(* Termination                                                             *)
(***************************************************************************)
\* one iteration of the for loop of collect, as far as the iterator goes
ReadLine == Running /\ pos' = Advance(pos)

\* include_file run until it returns: the open, the iterations of the loop
\* of collect and the tail of extract wait for nothing
SpecTermination ==
    /\ InitOpen
    /\ [][NextOpen]_vars
    /\ WF_vars(OpenFile \/ OpenError)
    /\ WF_pos(ReadLine)
    /\ WF_vars(Finish)

\* C28: every scanner terminates on every finite document, normally or by a
\* panic: each step of the loop reads the line the iterator stands at and
\* moves the iterator one line forward, so the lines are read in document
\* order, each at most once and none again, the iterator never passes the
\* end of the document, and extract returns in the end.
C28_Terminates ==
    /\ <>Done
    /\ [](pos <= Len(doc) + 1)
    /\ [][/\ pos' \in {pos, pos + 1}
          /\ Running => pos' = pos + 1
          /\ ~Running => pos' = pos]_vars

\* the markdown scanner read every line of a document of MaxLines lines and
\* extract returned
C28_Witness ==
    /\ Done
    /\ scanner = "markdown"
    /\ Len(doc) = MaxLines
    /\ pos = MaxLines + 1
    /\ ~stopped

(***************************************************************************)
(* The result split into lines again                                       *)
(***************************************************************************)
\* the line without the carriage return it ends with, if it ends with one
StripCarriageReturn(line) ==
    IF Len(line) > 0 /\ line[Len(line)] = "\r" THEN SliceTo(line, Len(line) - 1) ELSE line

\* the lines of a text as lines() yields them: the pieces between newline
\* characters, each without a carriage return at its end, and no last piece
\* when the text is empty or ends with a newline
Lines(text) ==
    LET pieces == SplitLines(text)
        n == IF Len(pieces[Len(pieces)]) = 0 THEN Len(pieces) - 1 ELSE Len(pieces)
    IN  [k \in 1..n |-> StripCarriageReturn(pieces[k])]

\* C29: every successful result, split into lines by a generic line
\* splitter and joined again with single newlines, is the result itself,
\* also when the collected content ends with blank lines.
C29_SplitAndRejoin ==
    (Done /\ result.kind = "Ok") => Join(Lines(result.text)) = result.text

(***************************************************************************)
(* lib.rs include_file: the tokens of the snippet                          *)
(***************************************************************************)
\* a fence of the name, its closing fence and content lines: identifiers, a
\* parenthesis group and an opening parenthesis that nothing closes
IncludeLines ==
    {
      <<Backtick, Backtick, Backtick, "r", "u", "s", "t", " ", "x">>,
      <<Backtick, Backtick, Backtick>>,
      <<"a">>,
      <<"b", " ", "c">>,
      <<"(", "a", ")">>,
      <<"(">>,
      <<"{", "a", "}">> }

\* include_file called with or without the scope parameter on a markdown
\* stream it has opened
InitInclude ==
    /\ Invoked
    /\ file = "open"
    /\ scope \in BOOLEAN
    /\ scanner = "markdown"
    /\ name \in Names
    /\ doc \in DocumentsOver(IncludeLines)
    /\ CollectLocals
    /\ previous = NoResult

\* the closing delimiter of each opening delimiter
Closer == [c \in {"(", "[", "{"} |-> CASE c = "(" -> ")" [] c = "[" -> "]" [] c = "{" -> "}"]

\* the delimiters of text from index i on are balanced, stack being the
\* closing delimiters awaited; otherwise the text does not parse
RECURSIVE Balanced(_, _, _)
Balanced(text, i, stack) ==
    IF i > Len(text) THEN Len(stack) = 0
    ELSE IF text[i] \in DOMAIN Closer
         THEN Balanced(text, i + 1, <<Closer[text[i]]>> \o stack)
    ELSE IF text[i] \in {")", "]", "}"}
         THEN /\ Len(stack) > 0
              /\ stack[1] = text[i]
              /\ Balanced(text, i + 1, Tail(stack))
    ELSE Balanced(text, i + 1, stack)

\* the token stream of a text, as the sequence of its lexemes: identifiers
\* of one character and delimiters, whitespace and newlines dropped
RECURSIVE Lexemes(_)
Lexemes(text) ==
    IF Len(text) = 0 THEN <<>>
    ELSE IF text[1] \in {" ", "\t", "\n"} THEN Lexemes(Tail(text))
    ELSE <<text[1]>> \o Lexemes(Tail(text))

\* Group::new(Delimiter::Brace, content) as a token stream
BraceGroup(content) == <<"{">> \o content \o <<"}">>

\* the content in a brace group whether or not scope was given
ScopedAlways(given, content) == BraceGroup(content)

\* the content, in a brace group if scope was given
Scoped(given, content) == IF given THEN BraceGroup(content) ELSE content

\* include_file after extract returned the snippet: parse it and wrap it
Expand ==
    /\ result.kind = "Ok"
    /\ result' = IF Balanced(result.text, 1, <<>>)
                 THEN [kind |-> "Tokens", text |-> Scoped(scope, Lexemes(result.text))]
                 ELSE [kind |-> "LexError", text |-> <<>>]
    /\ UNCHANGED <<previous, invocation, file, scope, scanner, name, doc, pos, stopped, lines, in_fence,
                   fence_char, fence_count, fence_indent, in_block,
                   delimiter_checked, use_delimiters, found_name, is_double_period>>

NextInclude == MarkdownStep \/ Finish \/ Expand

\* include_file of a markdown stream from extract on
SpecInclude == InitInclude /\ [][NextInclude]_vars

\* C30: the tokens include_file returns are the tokens of the extracted
\* snippet, inside one brace-delimited group when the scope parameter was
\* given and as they are when it was not; the tokens inside are the same in
\* both cases.
C30_ScopeWrapsInBraces ==
    result.kind = "Tokens" =>
        /\ scope => result.text = <<"{">> \o Lexemes(Join(lines)) \o <<"}">>
        /\ ~scope => result.text = Lexemes(Join(lines))

\* with scope, the snippet of the two lines "b c" and "(a)" came back as
\* one brace group
C30_Witness ==
    /\ scope
    /\ lines = << <<"b", " ", "c">>, <<"(", "a", ")">> >>
    /\ result = [kind |-> "Tokens", text |-> <<"{", "b", "c", "(", "a", ")", "}">>]

(***************************************************************************)
(* lib.rs MarkdownArgs::parse and the head of include_file                 *)
(***************************************************************************)
\* longest run of tokens after the name in the items of the model
MaxTokens == 4

\* a string literal, whatever its value
Str == "STR"
Comma == ","

\* the identifiers of the model
Idents == {"scope", "relative", "invalid"}

Tokens == {Str, Comma, ";", "="} \cup Idents

\* a path, a comma and a name
Required == <<Str, Comma, Str>>

\* the items of the model: every run of at most three tokens, and the
\* required arguments followed by every run of at most MaxTokens tokens
Items ==
    UNION {[1..n -> Tokens] : n \in 0..Len(Required)}
    \cup {Required \o tail : tail \in UNION {[1..n -> Tokens] : n \in 0..MaxTokens}}

\* an error of syn with its message
SynError(message) == [kind |-> "SynError", text |-> <<message>>]

\* Meta::parse at token i: the index after the meta, or 0 when there is
\* none: a path of one identifier, alone or followed by = and a value
MetaEnd(ts, i) ==
    IF i > Len(ts) \/ ts[i] \notin Idents THEN 0
    ELSE IF i < Len(ts) /\ ts[i + 1] = "="
         THEN IF i + 2 <= Len(ts) /\ ts[i + 2] \in {Str} \cup Idents THEN i + 3 ELSE 0
    ELSE i + 1

\* parse_terminated(Meta::parse, Token![,]) from token i on: the paths of
\* the metas parsed, or a parse error
RECURSIVE ParseTerminated(_, _, _)
ParseTerminated(ts, i, params) ==
    IF i > Len(ts) THEN [ok |-> TRUE, params |-> params]
    ELSE LET end == MetaEnd(ts, i)
         IN  IF end = 0 THEN [ok |-> FALSE, params |-> <<>>]
             ELSE IF end > Len(ts) THEN [ok |-> TRUE, params |-> Append(params, ts[i])]
             ELSE IF ts[end] # Comma THEN [ok |-> FALSE, params |-> <<>>]
             ELSE ParseTerminated(ts, end + 1, Append(params, ts[i]))

\* MarkdownArgs::parse: the parameters given, or the error
Parse(ts) ==
    IF Len(ts) = 0 \/ ts[1] # Str
    THEN [ok |-> FALSE, message |-> "missing required string parameters"]
    ELSE IF Len(ts) < 2 \/ ts[2] # Comma
    THEN [ok |-> FALSE, message |-> "expected ,"]
    ELSE IF Len(ts) < 3 \/ ts[3] # Str
    THEN [ok |-> FALSE, message |-> "missing required string parameters"]
    ELSE IF Len(ts) = 3
    THEN [ok |-> TRUE, scope |-> FALSE, relative |-> FALSE]
    ELSE IF ts[4] # Comma
    THEN [ok |-> FALSE, message |-> "unexpected token"]
    ELSE LET list == ParseTerminated(ts, 5, <<>>)
         IN  IF ~list.ok THEN [ok |-> FALSE, message |-> "parse error"]
             ELSE IF \E k \in 1..Len(list.params) : list.params[k] \notin {"scope", "relative"}
             THEN [ok |-> FALSE, message |-> "unsupported parameter"]
             ELSE [ok |-> TRUE,
                   scope |-> \E k \in 1..Len(list.params) : list.params[k] = "scope",
                   relative |-> \E k \in 1..Len(list.params) : list.params[k] = "relative"]

\* include_file up to the open: parse2 of the item, then the root of the
\* path, which a build without span_locations refuses for relative
ParseArgs ==
    /\ span_locations # "unbuilt"
    /\ item # Parsed
    /\ result.kind = "none"
    /\ item' = Parsed
    /\ LET args == Parse(item)
       IN  IF ~args.ok
           THEN result' = SynError(args.message) /\ UNCHANGED <<scope, relative>>
           ELSE /\ scope' = args.scope
                /\ relative' = args.relative
                /\ result' = IF args.relative /\ span_locations = "disabled"
                             THEN SynError("requires rustc 1.88 or newer")
                             ELSE result
    /\ UNCHANGED <<previous, version, span_locations, file, scanner, name, doc, pos, stopped,
                   lines, in_fence, fence_char, fence_count, fence_indent, in_block,
                   delimiter_checked, use_delimiters, found_name, is_double_period>>

\* a macro of a crate built with or without span_locations, given an item
InitArgs ==
    /\ version = <<"1", ".", "8", "8", ".", "0">>
    /\ span_locations \in {"enabled", "disabled"}
    /\ item \in Items
    /\ relative = FALSE
    /\ scope = FALSE
    /\ file = "closed"
    /\ scanner \in Scanners
    /\ name \in Names
    /\ doc = <<>>
    /\ CollectLocals
    /\ previous = NoResult

NextArgs == ParseArgs \/ OpenError

\* include_file from its item to the open of the stream
SpecArgs == InitArgs /\ [][NextArgs]_vars

\* the tokens are identifiers among scope and relative separated by commas
ParameterList(ts) ==
    \A k \in 1..Len(ts) :
        IF k % 2 = 1 THEN ts[k] \in {"scope", "relative"} ELSE ts[k] = Comma

\* a string path, a comma, a string name and, optionally, a comma and a
\* comma-separated list drawn from scope and relative
AcceptedForm(ts) ==
    /\ Len(ts) >= Len(Required)
    /\ SubSeq(ts, 1, Len(Required)) = Required
    /\ Len(ts) > Len(Required)
          => ts[4] = Comma /\ ParameterList(SubSeq(ts, 5, Len(ts)))

\* C31: the arguments are accepted only in the form of a string path, a
\* comma, a string name and, optionally, a comma and a comma-separated list
\* drawn from scope and relative in any order (a trailing comma being
\* allowed); every other item ends in an error and no snippet is returned,
\* and an item of that form is parsed into the parameters it names.
C31_ArgumentForm ==
    [][(item # Parsed /\ item' = Parsed)
           => /\ ~AcceptedForm(item) => result'.kind = "SynError"
              /\ (AcceptedForm(item) /\ span_locations = "enabled")
                    => /\ result'.kind = "none"
                       /\ scope' <=> \E k \in 1..Len(item) : item[k] = "scope"
                       /\ relative' <=> \E k \in 1..Len(item) : item[k] = "relative"]_vars

\* build.rs: the version word of rustc --version and the cfg span_locations
Digits == <<"0", "1", "2", "3", "4", "5", "6", "7", "8", "9">>

DigitValue(c) == (CHOOSE n \in 1..Len(Digits) : Digits[n] = c) - 1

IsDigit(c) == \E n \in 1..Len(Digits) : Digits[n] = c

RECURSIVE Decimal(_)
Decimal(s) ==
    IF s = <<>> THEN 0
    ELSE 10 * Decimal(SubSeq(s, 1, Len(s) - 1)) + DigitValue(s[Len(s)])

\* str::parse::<u16>: an optional plus sign and digits of a value below 2^16
ParseU16(s) ==
    LET digits == IF s # <<>> /\ s[1] = "+" THEN Tail(s) ELSE s
    IN  IF /\ digits # <<>>
           /\ \A k \in 1..Len(digits) : IsDigit(digits[k])
           /\ Decimal(digits) < 2^16
        THEN [ok |-> TRUE, value |-> Decimal(digits)]
        ELSE [ok |-> FALSE, value |-> 0]

\* str::splitn: at most n parts, the last one being the rest of the string
RECURSIVE SplitN(_, _, _)
SplitN(s, n, sep) ==
    IF n <= 1 \/ ~\E k \in 1..Len(s) : s[k] = sep
    THEN <<s>>
    ELSE LET k == CHOOSE j \in 1..Len(s) :
                      s[j] = sep /\ \A i \in 1..(j - 1) : s[i] # sep
         IN  <<SubSeq(s, 1, k - 1)>> \o SplitN(SubSeq(s, k + 1, Len(s)), n - 1, sep)

NewVersion(major, minor, patch) == [major |-> major, minor |-> minor, patch |-> patch]

MIN_SPAN_LOCATIONS_VER == NewVersion(1, 88, 0)

\* Version::from_str: three parts between periods, each a u16
FromStr(s) ==
    LET values == SplitN(s, 3, ".")
    IN  IF /\ Len(values) = 3
           /\ \A k \in 1..3 : ParseU16(values[k]).ok
        THEN [ok |-> TRUE,
              version |-> NewVersion(ParseU16(values[1]).value,
                                     ParseU16(values[2]).value,
                                     ParseU16(values[3]).value)]
        ELSE [ok |-> FALSE, version |-> NewVersion(0, 0, 0)]

\* Ord for Version: by major, then minor, then patch
Cmp(a, b) ==
    IF a.major # b.major THEN (IF a.major < b.major THEN "Less" ELSE "Greater")
    ELSE IF a.minor # b.minor THEN (IF a.minor < b.minor THEN "Less" ELSE "Greater")
    ELSE IF a.patch # b.patch THEN (IF a.patch < b.patch THEN "Less" ELSE "Greater")
    ELSE "Equal"

\* build.rs main: span_locations is set if the version parses and is not
\* below the minimum
Build ==
    /\ span_locations = "unbuilt"
    /\ span_locations' = LET parsed == FromStr(version)
                         IN  IF parsed.ok /\ Cmp(parsed.version, MIN_SPAN_LOCATIONS_VER) # "Less"
                             THEN "enabled"
                             ELSE "disabled"
    /\ UNCHANGED <<previous, version, item, relative, file, scope, scanner, name, doc, pos,
                   stopped, lines, in_fence, fence_char, fence_count, fence_indent,
                   in_block, delimiter_checked, use_delimiters, found_name,
                   is_double_period, result>>

\* version words of releases and of nightly and beta builds, and words that
\* are no version
Versions ==
    LET majors == {<<"0">>, <<"1">>, <<"2">>}
        minors == {<<"0">>, <<"8", "7">>, <<"8", "8">>, <<"8", "9">>, <<"1", "0", "0">>}
        patches == {<<"0">>, <<"1">>}
        pre_releases == {<<>>, <<"-", "n", "i", "g", "h", "t", "l", "y">>,
                         <<"-", "b", "e", "t", "a", ".", "1">>}
    IN  {ma \o <<".">> \o mi \o <<".">> \o pa \o pre :
             ma \in majors, mi \in minors, pa \in patches, pre \in pre_releases}
        \cup {<<>>, <<"1", ".", "8", "8">>, <<"1", ".", "x", ".", "0">>}

\* calls without parameters, with scope, with relative and with both
BuildItems ==
    {Required, Required \o <<Comma, "scope">>, Required \o <<Comma, "relative">>,
     Required \o <<Comma, "scope", Comma, "relative">>}

InitBuild ==
    /\ version \in Versions
    /\ span_locations = "unbuilt"
    /\ item \in BuildItems
    /\ relative = FALSE
    /\ scope = FALSE
    /\ file = "closed"
    /\ scanner = "markdown"
    /\ name \in Names
    /\ doc = <<>>
    /\ CollectLocals
    /\ previous = NoResult

NextBuild == Build \/ ParseArgs \/ OpenError

SpecBuild == InitBuild /\ [][NextBuild]_vars

\* the release a version word names: major, minor and patch before the
\* pre-release part
Release(word) ==
    LET core == SplitN(word, 2, "-")[1]
        values == SplitN(core, 3, ".")
    IN  NewVersion(Decimal(values[1]), Decimal(values[2]), Decimal(values[3]))

IsPreRelease(word) == \E k \in 1..Len(word) : word[k] = "-"

WellFormed(word) ==
    LET values == SplitN(SplitN(word, 2, "-")[1], 3, ".")
    IN  /\ Len(values) = 3
        /\ \A k \in 1..3 : values[k] # <<>> /\ \A j \in 1..Len(values[k]) : IsDigit(values[k][j])

\* the compiler is 1.88.0 or newer: a later release or one of its
\* pre-releases, or the release 1.88.0 itself
AtLeastMinimum(word) ==
    \/ Cmp(Release(word), MIN_SPAN_LOCATIONS_VER) = "Greater"
    \/ Cmp(Release(word), MIN_SPAN_LOCATIONS_VER) = "Equal" /\ ~IsPreRelease(word)

RequiresRustc == SynError("requires rustc 1.88 or newer")

\* C32: relative is supported exactly when the crate is built with rustc
\* 1.88.0 or newer: the build enables span_locations if and only if the
\* reported version, compared by major, minor, patch, is at least 1.88.0;
\* without span_locations a call with relative ends in the error "requires
\* rustc 1.88 or newer" with the file never opened, and with span_locations
\* it does not end in that error.
C32_RelativeNeedsRustc188 ==
    /\ (span_locations # "unbuilt" /\ WellFormed(version))
          => (span_locations = "enabled" <=> AtLeastMinimum(version))
    /\ (span_locations = "disabled" /\ relative)
          => result = RequiresRustc /\ file = "closed"
    /\ span_locations = "enabled" => result # RequiresRustc

(***************************************************************************)
(* Documents about openings inside an open block: in each dialect an       *)
(* opening of the requested name, openings of another name or shape,       *)
(* content and closers.                                                    *)
(***************************************************************************)
NestedOpeningLines(sc) ==
    CASE sc = "markdown" ->
    { <<Backtick, Backtick, Backtick, "r", "u", "s", "t", " ", "x">>,
          <<Backtick, Backtick, Backtick, Backtick, "r", "u", "s", "t", " ", "x">>,
          <<" ", Backtick, Backtick, Backtick, "r", "u", "s", "t", " ", "y">>,
          <<"~", "~", "~", "r", "u", "s", "t", " ", "x">>,
          <<"a">>,
          <<Backtick, Backtick, Backtick>> }
      [] sc = "asciidoc" ->
    { <<"[", "s", "o", "u", "r", "c", "e", ",", "r", "u", "s", "t", ",", "i", "d", "=", "\"", "x", "\"", "]">>,
          <<"[", "s", "o", "u", "r", "c", "e", ",", "r", "u", "s", "t", ",", "i", "d", "=", "\"", "y", "\"", "]">>,
          <<"-", "-", "-", "-">>,
          <<"a">>,
          <<>> }
      [] sc = "org" ->
    { <<"#", "+", "N", "A", "M", "E", ":", " ", "x">>,
          <<"#", "+", "N", "A", "M", "E", ":", " ", "y">>,
          <<"#", "+", "B", "E", "G", "I", "N", "_", "S", "R", "C", " ", "r", "u", "s", "t">>,
          <<"a">>,
          <<"#", "+", "E", "N", "D", "_", "S", "R", "C">> }
      [] sc = "textile" ->
    { <<"b", "c", "(", "r", "u", "s", "t", "#", "x", ")", ".", " ", "a">>,
          <<"b", "c", "(", "r", "u", "s", "t", "#", "x", ")", ".", ".", " ", "a">>,
          <<"b", "c", "(", "r", "u", "s", "t", "#", "y", ")", ".", " ", "b">>,
          <<"p", ".", " ", "a">>,
          <<"a">>,
          <<>> }

InitNestedOpenings ==
    /\ scanner \in Scanners
    /\ name \in Names
    /\ doc \in DocumentsOver(NestedOpeningLines(scanner))
    /\ InitLocals

\* extract with any collect on the documents about openings inside a block
SpecNestedOpenings == InitNestedOpenings /\ [][Next]_vars

\* the scanner reads a line with a block open
ReadsInOpenBlock == Running /\ (in_fence \/ in_block)

\* the line read would open a block, of the requested name or not, were the
\* scanner searching
WouldOpen ==
    \/ CandidateAt(scanner, doc, pos)
    \/ scanner = "org" /\ BeginLine(doc[pos])

\* what the scanner remembers of the opening of the block
Opening ==
    <<in_fence, fence_char, fence_count, fence_indent, in_block, found_name,
      is_double_period>>

\* the step added the line read, or what follows its indentation, to the
\* lines collected so far
CollectedAsContent ==
    /\ ~stopped'
    /\ Len(lines') = Len(lines) + 1
    /\ SubSeq(lines', 1, Len(lines)) = lines
    /\ \E k \in 0..Len(doc[pos]) :
           lines'[Len(lines')] = SubSeq(doc[pos], k + 1, Len(doc[pos]))

\* the step ended the block, keeping the lines collected so far (the
\* trailing blank ones aside)
HandledAsTerminator ==
    /\ stopped'
    /\ lines' \in {lines, PopBlankLines(lines)}

\* C33: once a block is open, a line that would itself open a block, of the
\* requested name or not, is handled only as content or as a terminator: the
\* collection is never restarted or replaced, and what the scanner recorded
\* of the opening stays as it is, so that one opening is tracked at a time.
C33_OneOpeningAtATime ==
    [][(ReadsInOpenBlock /\ WouldOpen)
           => /\ CollectedAsContent \/ HandledAsTerminator
              /\ Opening' = Opening
              /\ ~Done']_vars

\* with a fence of run 3 open, an opening of the requested name of run 4
\* was collected as content
C33_Witness ==
    /\ scanner = "markdown"
    /\ in_fence
    /\ fence_count = 3
    /\ Len(lines) = 1
    /\ lines[1] = Rep(Backtick, 4) \o <<"r", "u", "s", "t", " ">> \o name

(***************************************************************************)
(* Documents about blocks of no content or of blank content: in each       *)
(* dialect the opening of the requested name, the closers, an empty line,  *)
(* a line of one space and a content line.                                 *)
(***************************************************************************)
EmptyBlockLines(sc) ==
    CASE sc = "markdown" ->
    { <<Backtick, Backtick, Backtick, "r", "u", "s", "t", " ", "x">>,
          <<Backtick, Backtick, Backtick>>,
          <<>>,
          <<" ">>,
          <<"a">> }
      [] sc = "asciidoc" ->
    { <<"[", "s", "o", "u", "r", "c", "e", ",", "r", "u", "s", "t", ",", "i", "d", "=", "\"", "x", "\"", "]">>,
          <<"-", "-", "-", "-">>,
          <<>>,
          <<" ">>,
          <<"a">> }
      [] sc = "org" ->
    { <<"#", "+", "N", "A", "M", "E", ":", " ", "x">>,
          <<"#", "+", "B", "E", "G", "I", "N", "_", "S", "R", "C", " ", "r", "u", "s", "t">>,
          <<"#", "+", "E", "N", "D", "_", "S", "R", "C">>,
          <<>>,
          <<"a">> }
      [] sc = "textile" ->
    { <<"b", "c", "(", "r", "u", "s", "t", "#", "x", ")", ".", " ", "a">>,
          <<"b", "c", "(", "r", "u", "s", "t", "#", "x", ")", ".", ".", " ", "a">>,
          <<"p", ".", " ", "a">>,
          <<>>,
          <<"a">> }

\* the name directive and the begin directive of an org block, which come
\* as two lines
OrgBlockHead ==
    << <<"#", "+", "N", "A", "M", "E", ":", " ", "x">>,
       <<"#", "+", "B", "E", "G", "I", "N", "_", "S", "R", "C", " ", "r", "u", "s", "t">> >>

EmptyBlockPieces(sc) ==
    {<<line>> : line \in EmptyBlockLines(sc)}
    \cup (IF sc = "org" THEN {OrgBlockHead} ELSE {})

RECURSIVE Concat(_)
Concat(pieces) ==
    IF pieces = <<>> THEN <<>> ELSE pieces[1] \o Concat(Tail(pieces))

InitEmptyBlocks ==
    /\ scanner \in Scanners
    /\ name \in Names
    /\ doc \in {Concat(pieces) : pieces \in DocumentsOver(EmptyBlockPieces(scanner))}
    /\ InitLocals

\* extract with any collect on the documents about empty and blank blocks
SpecEmptyBlocks == InitEmptyBlocks /\ [][Next]_vars

\* every line is empty or whitespace
AllBlank(ls) == \A k \in 1..Len(ls) : Len(Trim(ls[k])) = 0

\* C34: extract returns success if and only if the scanner collected at
\* least one content line, and not-found otherwise; the number of lines
\* decides, not the text: when all the collected lines are blank the result
\* is a success whose text is empty or blank.
C34_SuccessIffLinesCollected ==
    Done => /\ result.kind = "Ok" <=> Len(lines) > 0
            /\ result.kind = "NotFound" <=> Len(lines) = 0
            /\ result.kind = "Ok" => result.text = Join(lines)
            /\ (Len(lines) > 0 /\ AllBlank(lines))
                  => result.kind = "Ok" /\ AllBlank(SplitLines(result.text))

\* a fence that holds one empty line was returned as the empty text
C34_Witness ==
    /\ scanner = "markdown"
    /\ Len(lines) = 1
    /\ result = [kind |-> "Ok", text |-> <<>>]

\* the first block of the name in the document resolves with no line
\* collected: a fence closed on the next line, an attribute line followed by
\* a blank line or by two delimiters, a begin directive followed by the end
\* directive
FirstBlockEmpty(sc, d, nm) ==
    LET i == FirstBlock(sc, d, nm)
    IN  /\ i # 0
        /\ CASE sc = "markdown" ->
                  LET ind == Indentation(d[i])
                      c == d[i][ind + 1]
                      n == LeadingRun(SubSeq(d[i], ind + 1, Len(d[i])), c)
                  IN  i < Len(d) /\ ClosingFence(d[i + 1], c, n, ind)
             [] sc = "asciidoc" ->
                  \/ i < Len(d) /\ Len(Trim(d[i + 1])) = 0
                  \/ /\ i + 1 < Len(d)
                     /\ Trim(d[i + 1]) = Delimiter
                     /\ Trim(d[i + 2]) = Delimiter
             [] sc = "org" ->
                  i + 1 < Len(d) /\ DirectiveLine(d[i + 2], EndSrc)
             [] sc = "textile" -> FALSE

\* a block of the name that stands after line i holds a content line
LaterBlockWithContent(sc, d, nm, i) ==
    \E j \in MatchingBlocks(sc, d, nm) :
        /\ j > i + 1
        /\ j + (IF sc = "org" THEN 2 ELSE 1) <= Len(d)
        /\ d[j + (IF sc = "org" THEN 2 ELSE 1)] = <<"a">>

\* C35: a scanner that opened the first matching block never returns to
\* searching: when that block resolves with no collected line the result is
\* not-found, even if a later block of the same name has content.
C35_EmptyFirstBlockNotFound ==
    (Done /\ FirstBlockEmpty(scanner, doc, name)) => result.kind = "NotFound"

\* the first fence was closed on the next line and a later fence of the
\* name holds a content line
C35_Witness ==
    /\ Done
    /\ scanner = "markdown"
    /\ FirstBlockEmpty(scanner, doc, name)
    /\ LaterBlockWithContent(scanner, doc, name, FirstBlock(scanner, doc, name))
    /\ result.kind = "NotFound"

(***************************************************************************)
(* A second call of extract with the same scanner and name, on a document  *)
(* that agrees with the first one up to the line that ended the block.     *)
(***************************************************************************)
\* the vector of the first call is in use again
LinesOfFirstCall == lines

\* let mut lines = Vec::new()
NewLines == <<>>

\* the lines a document may hold after the first k ones
Following(k) ==
    UNION {[1..n -> EmptyBlockLines(scanner)] :
               n \in 0..(IF MaxLines > k THEN MaxLines - k ELSE 0)}

\* extract is called again: the locals of collect are new, the document is
\* the same up to the line that ended the block (all of it when no line did)
Again ==
    /\ Done
    /\ previous = NoResult
    /\ previous' = result
    /\ doc' \in IF stopped
                THEN {SubSeq(doc, 1, pos - 1) \o rest : rest \in Following(pos - 1)}
                ELSE {doc}
    /\ pos' = 1
    /\ stopped' = FALSE
    /\ lines' = NewLines
    /\ in_fence' = FALSE
    /\ fence_char' = Nul
    /\ fence_count' = 0
    /\ fence_indent' = 0
    /\ in_block' = FALSE
    /\ delimiter_checked' = FALSE
    /\ use_delimiters' = FALSE
    /\ found_name' = FALSE
    /\ is_double_period' = FALSE
    /\ result' = NoResult
    /\ UNCHANGED <<invocation, file, scope, scanner, name>>

NextRepeated == Next \/ Again

\* two calls of extract, the second on a document with the same beginning
SpecRepeated == InitEmptyBlocks /\ [][NextRepeated]_vars

\* C36: the result depends only on the name and on the lines up to and
\* including the one that terminates the matched block: a second extraction
\* with the same name, on the same document or on one that agrees with it up
\* to that line and differs after it, yields the result of the first.
C36_ResultOfPrefix ==
    (Done /\ previous # NoResult) => result = previous

\* the second document holds a block of the name after the line that ended
\* the first block, and the result is the one of the first call
C36_Witness ==
    /\ Done
    /\ previous.kind = "Ok"
    /\ result = previous
    /\ stopped
    /\ \E j \in pos..Len(doc) :
          MatchingBlockAt(scanner, doc, name, j) /\ LaterBlockWithContent(scanner, doc, name, j - 2)

\* what holds of the locals of the collect functions in every state
CollectInvariant ==
    /\ (~in_fence /\ ~in_block) => lines = <<>>
    /\ use_delimiters => delimiter_checked
    /\ delimiter_checked => in_block
    /\ ~(in_block /\ found_name)

\* C37: in every reachable state the collected list is empty while the
\* scanner is still searching, use_delimiters implies delimiter_checked,
\* which implies in_block (asciidoc), in_block and found_name are never both
\* true (org); and no step clears an open flag that is set.
C37_ScannerInvariants ==
    /\ []CollectInvariant
    /\ [][(in_fence => in_fence') /\ (in_block => in_block')]_vars

\* the org scanner opened a block after a pending name and collected a line
C37_Witness ==
    /\ scanner = "org"
    /\ in_block
    /\ ~found_name
    /\ Len(lines) > 0

\* the first line of an open textile block is there and is not blank
FirstLineKept ==
    (scanner = "textile" /\ in_block)
        => /\ Len(lines) >= 1
           /\ Len(Trim(lines[1])) > 0
           /\ Done => result.kind = "Ok"

\* C38: in the textile scanner an opened block always yields success: the
\* block is opened only together with a non-blank first content line, the
\* collected list is non-empty in every state where in_block holds, and no
\* step, the trimming of trailing blank lines before a structural-block line
\* included, removes or changes that first line.
C38_TextileBlockNeverEmpty ==
    /\ []FirstLineKept
    /\ [][(scanner = "textile" /\ in_block) => lines'[1] = lines[1]]_vars

\* a double-period block of one content line and a blank line ended at a
\* structural-block line: the blank line was trimmed, the first line kept
C38_Witness ==
    /\ scanner = "textile"
    /\ is_double_period
    /\ stopped
    /\ pos = 4
    /\ Len(Trim(doc[2])) = 0
    /\ lines = << <<"a">> >>
    /\ result.kind = "Ok"

(***************************************************************************)
(* InlineAttributed: opening lines without inline content                  *)
(***************************************************************************)
\* opening lines that end at the period or periods, for both identifiers,
\* opening lines with inline content, a content line and an empty line
TextileBareLines ==
    { <<"b", "c", "(", "r", "u", "s", "t", "#", "x", ")", ".">>,
      <<"b", "c", "(", "r", "u", "s", "t", "#", "x", ")", ".", ".">>,
      <<"b", "c", "(", "r", "u", "s", "t", "#", "x", ")", ".", "a">>,
      <<"b", "c", "(", "r", "u", "s", "t", "#", "x", " ", "y", ")", ".">>,
      <<"b", "c", "(", "r", "u", "s", "t", "#", "x", ")", ".", " ", "a">>,
      <<"a">>,
      <<>> }

InitTextileBare ==
    /\ scanner = "textile"
    /\ name \in TextileInlineNames
    /\ doc \in DocumentsOver(TextileBareLines)
    /\ InitLocals

\* extract with the collect of textile.rs on the documents about opening
\* lines without inline content
SpecTextileBare == InitTextileBare /\ [][NextTextile]_vars

\* InlineAttributed: the line has the introducer, the attribute group of nm
\* and its period or periods, and no inline content after a space
BareOpening(line, nm) ==
    BeginsWithGroup(line, nm) /\ Len(InlineContent(line, nm)) = 0

\* no line of the document opens a block, one of them is an opening line
\* without inline content, and the result is not-found
BareOpeningNotFound ==
    ( /\ Done
      /\ scanner = "textile"
      /\ MatchingBlocks(scanner, doc, name) = {}
      /\ \E i \in 1..Len(doc) : BareOpening(doc[i], name))
    => result.kind = "NotFound"

\* C39: a textile opening line that matches the introducer, the attribute
\* group and the period or periods but carries no inline content after a
\* space does not open the block: the scanner stays searching and nothing is
\* collected, and when no line of the document opens a block the result is
\* not-found.
C39_BareOpeningOpensNothing ==
    [][/\ (scanner = "textile" /\ Searching /\ BareOpening(doc[pos], name))
             => ~in_block' /\ lines' = <<>> /\ ~stopped'
       /\ BareOpeningNotFound']_vars

(***************************************************************************)
(* code.rs extract: the fenced scanner that closes on a run of exactly the *)
(* opening length, run on the document after the one of markdown.rs        *)
(***************************************************************************)
\* the closing test with a shorter run accepted
CodeClosesFenceAtMost(line) ==
    LET trimmed_start == TrimStart(line)
        indent == Len(line) - Len(trimmed_start)
    IN  /\ indent = fence_indent
        /\ Len(trimmed_start) > 0
        /\ trimmed_start[1] = fence_char
        /\ LeadingRun(trimmed_start, fence_char) <= fence_count

CodeClosesFence(line) ==
    LET trimmed_start == TrimStart(line)
        indent == Len(line) - Len(trimmed_start)
    IN  /\ indent = fence_indent
        /\ Len(trimmed_start) > 0
        /\ trimmed_start[1] = fence_char
        /\ LeadingRun(trimmed_start, fence_char) = fence_count

\* code.rs extract: one iteration of the loop
CodeStep ==
    /\ scanner = "code"
    /\ Running
    /\ LET line == doc[pos]
           trimmed_start == TrimStart(line)
           indent == Len(line) - Len(trimmed_start)
       IN  IF ~in_fence
           THEN /\ IF MarkdownOpens(line)
                   THEN /\ in_fence' = TRUE
                        /\ fence_char' = trimmed_start[1]
                        /\ fence_count' = LeadingRun(trimmed_start, trimmed_start[1])
                        /\ fence_indent' = indent
                   ELSE UNCHANGED <<in_fence, fence_char, fence_count, fence_indent>>
                /\ UNCHANGED <<lines, stopped, result>>
           ELSE /\ IF CodeClosesFence(line)
                   THEN stopped' = TRUE /\ UNCHANGED <<lines, result>>
                   ELSE IF MarkdownStripPanics(line)
                   THEN result' = Panicked /\ UNCHANGED <<lines, stopped>>
                   ELSE /\ lines' = Append(lines, MarkdownStrip(line))
                        /\ UNCHANGED <<stopped, result>>
                /\ UNCHANGED <<in_fence, fence_char, fence_count, fence_indent>>
    /\ pos' = Advance(pos)
    /\ UNCHANGED <<previous, invocation, file, scope, scanner, name, doc, in_block,
                   delimiter_checked, use_delimiters, found_name, is_double_period>>

\* the document markdown.rs was run on is given to extract of code.rs
OtherVariant ==
    /\ Done
    /\ scanner = "markdown"
    /\ previous = NoResult
    /\ previous' = result
    /\ scanner' = "code"
    /\ pos' = 1
    /\ stopped' = FALSE
    /\ lines' = <<>>
    /\ in_fence' = FALSE
    /\ fence_char' = Nul
    /\ fence_count' = 0
    /\ fence_indent' = 0
    /\ result' = NoResult
    /\ UNCHANGED <<invocation, file, scope, name, doc, in_block, delimiter_checked,
                   use_delimiters, found_name, is_double_period>>

\* openings of runs 3 and 4, one of them indented, bare runs of 3 and 4, one
\* of them indented, and a content line
FenceVariantLines ==
    { <<Backtick, Backtick, Backtick, "r", "u", "s", "t", " ", "x">>,
          <<Backtick, Backtick, Backtick, Backtick, "r", "u", "s", "t", " ", "x">>,
          <<" ", Backtick, Backtick, Backtick, "r", "u", "s", "t", " ", "x">>,
          <<Backtick, Backtick, Backtick>>,
          <<Backtick, Backtick, Backtick, Backtick>>,
          <<" ", Backtick, Backtick, Backtick, Backtick>>,
          <<"a">> }

InitVariants ==
    /\ scanner = "markdown"
    /\ name \in Names
    /\ doc \in DocumentsOver(FenceVariantLines)
    /\ InitLocals

NextVariants == MarkdownStep \/ CodeStep \/ Finish \/ OtherVariant

\* both fenced scanners, one after the other, on the same document and name
SpecVariants == InitVariants /\ [][NextVariants]_vars

\* the line starts, at indentation ind, with a run of more than n characters c
LongerRun(line, ind, c, n) ==
    \E k \in (n + 1)..Len(line) : FenceLine(line, ind, c, k)

\* a line inside the first block of the name, before the run of exactly the
\* opening length that ends it, starts with a longer run at the opening
\* indentation
HasLongerRun(d, nm) ==
    LET i == FirstBlock("markdown", d, nm)
        ind == Indentation(d[i])
        c == d[i][ind + 1]
        n == LeadingRun(SubSeq(d[i], ind + 1, Len(d[i])), c)
        t == Terminator(d, i + 1, {j \in 1..Len(d) : FenceLine(d[j], ind, c, n)})
    IN  /\ i # 0
        /\ \E j \in (i + 1)..(t - 1) : LongerRun(d[j], ind, c, n)

\* extract of code.rs returned what markdown.rs returned on the document
SameOutcome ==
    (Done /\ scanner = "code" /\ ~HasLongerRun(doc, name)) => result = previous

\* the fenced scanner sc reads, with its block open, a line that starts at
\* the opening indentation with a run longer than the opening one
ReadsLongerRun(sc) ==
    /\ scanner = sc
    /\ in_fence
    /\ Running
    /\ LongerRun(doc[pos], fence_indent, fence_char, fence_count)

\* C40: the fenced scanner of markdown.rs, which closes on a run >= N, and
\* the one of code.rs, which closes on a run == N, return the same outcome
\* on every document and name for which no line inside the matched block
\* starts, at the opening indentation, with a run of the fence character
\* longer than N; at such a line the >= N variant stops and the == N variant
\* collects the line as content.
C40_VariantsAgree ==
    /\ []SameOutcome
    /\ [][/\ ReadsLongerRun("markdown") => Ended
          /\ ReadsLongerRun("code") => Collected(MarkdownStrip(doc[pos]))]_vars

\* both variants returned the content of a block of run 4 that holds a run
\* of 3 and ends at a run of 4
C40_Witness ==
    /\ scanner = "code"
    /\ previous.kind = "Ok"
    /\ result = previous
    /\ fence_count = 4
    /\ stopped
    /\ lines = << Rep(Backtick, 3) >>

====
